---- MODULE Spec2Model ----
(***************************************************************************)
(* Model of the pgexporter metrics engine (src/libpgexporter/prometheus.c):*)
(* the shared response cache and its CAS lock, the /metrics worker         *)
(* (metrics_page), pgexporter_prometheus_reset, the collectors that fill   *)
(* the bridge (registry) and the text serializer.                          *)
(*                                                                         *)
(* C strings are TLA+ strings: Len is strlen, \o is append, SubSeq(s,i,i)  *)
(* is the character s[i-1].  The never-read field val->timestamp of a      *)
(* sample is not represented.                                              *)
(***************************************************************************)
EXTENDS Integers, Sequences, FiniteSets, TLC

(***************************************************************************)
(* Bounds of the model                                                     *)
(***************************************************************************)
\* environment events (clock ticks, injected faults) per behaviour
MaxEvents == 1

(***************************************************************************)
(* Program constants                                                       *)
(***************************************************************************)
STATE_FREE == 0
STATE_IN_USE == 1
PGEXPORTER_PROMETHEUS_CACHE_DISABLED == 0
PROMETHEUS_MAX_CACHE_SIZE == 1048576
PROMETHEUS_DEFAULT_CACHE_SIZE == 262144
DEFAULT_BLOCKING_TIMEOUT == 30
MAX_ARR_LENGTH == 256
VERSION == "0.7.0"
SORT_NAME == "SORT_NAME"
SORT_DATA0 == "SORT_DATA0"
SERVER_QUERY_BOTH == "both"
SERVER_QUERY_PRIMARY == "primary"
SERVER_QUERY_REPLICA == "replica"
SERVER_PRIMARY == "primary"
SERVER_REPLICA == "replica"
LABEL_TYPE == "label"
GAUGE_TYPE == "gauge"
COUNTER_TYPE == "counter"
HISTOGRAM_TYPE == "histogram"
INPUT_NO == "no"
INPUT_DATA == "data"
INPUT_WAL == "wal"

(***************************************************************************)
(* C string helpers                                                        *)
(***************************************************************************)
Min(a, b) == IF a < b THEN a ELSE b

\* s[i] of a C string, 0-based; "" stands for the terminating NUL
CharAt(s, i) == IF i < Len(s) THEN SubSeq(s, i + 1, i + 1) ELSE ""

\* the ASCII characters that occur in names and values, in code order
Ascii == "\t\n\r !\"#$%&'()*+,-./0123456789:;<=>?@ABCDEFGHIJKLMNOPQRSTUVWXYZ[\\]^_abcdefghijklmnopqrstuvwxyz{|}~"

AsciiChars == {SubSeq(Ascii, i, i) : i \in 1..Len(Ascii)}

\* the place of each character in that order
OrdTable == [c \in AsciiChars |-> CHOOSE i \in 1..Len(Ascii) : SubSeq(Ascii, i, i) = c]

Ord(c) == IF c = "" THEN 0 ELSE OrdTable[c]

RECURSIVE StrLessFrom(_, _, _)
StrLessFrom(a, b, i) ==
  IF i >= Len(b) THEN FALSE
  ELSE IF i >= Len(a) THEN TRUE
  ELSE IF CharAt(a, i) = CharAt(b, i) THEN StrLessFrom(a, b, i + 1)
  ELSE Ord(CharAt(a, i)) < Ord(CharAt(b, i))

\* strcmp(a, b) < 0
StrLess(a, b) == StrLessFrom(a, b, 0)

HexDigit(d) == SubSeq("0123456789ABCDEF", d + 1, d + 1)

RECURSIVE Hex(_)
\* sprintf("%zX", n)
Hex(n) == IF n < 16 THEN HexDigit(n) ELSE Hex(n \div 16) \o HexDigit(n % 16)

\* ctime_r: a text that is a function of the time, ending with a newline
ctime_r(t) == "t=" \o ToString(t) \o "\n"

\* time_buf after time_buf[strlen(time_buf) - 1] = 0
time_buf(t) == SubSeq(ctime_r(t), 1, Len(ctime_r(t)) - 1)

(***************************************************************************)
(* Value coercer and label encoder                                         *)
(***************************************************************************)
IsSpace(c) == c \in {" ", "\t", "\n", "\r"}
IsDigit(c) == c \in {"0", "1", "2", "3", "4", "5", "6", "7", "8", "9"}
IsHexDigit(c) == IsDigit(c) \/ c \in {"a", "b", "c", "d", "e", "f", "A", "B", "C", "D", "E", "F"}
IsSign(c) == c \in {"+", "-"}

Upper == "ABCDEFGHIJKLMNOPQRSTUVWXYZ"
Lower == "abcdefghijklmnopqrstuvwxyz"

ToLowerChar(c) ==
  IF \E i \in 1..Len(Upper) : SubSeq(Upper, i, i) = c
  THEN LET i == CHOOSE k \in 1..Len(Upper) : SubSeq(Upper, k, k) = c IN SubSeq(Lower, i, i)
  ELSE c

RECURSIVE SkipSpace(_, _)
SkipSpace(s, i) == IF IsSpace(CharAt(s, i)) THEN SkipSpace(s, i + 1) ELSE i

RECURSIVE SkipDigits(_, _)
SkipDigits(s, i) == IF IsDigit(CharAt(s, i)) THEN SkipDigits(s, i + 1) ELSE i

RECURSIVE SkipHexDigits(_, _)
SkipHexDigits(s, i) == IF IsHexDigit(CharAt(s, i)) THEN SkipHexDigits(s, i + 1) ELSE i

RECURSIVE MatchesNoCase(_, _, _, _)
\* strncasecmp(s + i, word + k, ...) == 0 for the rest of word
MatchesNoCase(s, i, word, k) ==
  IF k >= Len(word) THEN TRUE
  ELSE ToLowerChar(CharAt(s, i)) = CharAt(word, k) /\ MatchesNoCase(s, i + 1, word, k + 1)

\* strtol(val, &end, 10): the index end points to (0 when nothing converts)
strtol_end(val) ==
  LET i0 == SkipSpace(val, 0)
      i1 == IF IsSign(CharAt(val, i0)) THEN i0 + 1 ELSE i0
      i2 == SkipDigits(val, i1)
  IN IF i2 = i1 THEN 0 ELSE i2

\* the optional exponent of a strtod number that starts at i (marker e or p)
ExponentEnd(s, i, marker) ==
  IF ToLowerChar(CharAt(s, i)) = marker
  THEN LET j == IF IsSign(CharAt(s, i + 1)) THEN i + 2 ELSE i + 1
           k == SkipDigits(s, j)
       IN IF k = j THEN i ELSE k
  ELSE i

\* strtod(val, &end): the index end points to (0 when nothing converts)
strtod_end(val) ==
  LET i0 == SkipSpace(val, 0)
      i1 == IF IsSign(CharAt(val, i0)) THEN i0 + 1 ELSE i0
      dInt == SkipDigits(val, i1)
      dFrac == IF CharAt(val, dInt) = "." THEN SkipDigits(val, dInt + 1) ELSE dInt
      dDigits == (dInt - i1) + (IF dFrac > dInt THEN dFrac - dInt - 1 ELSE 0)
      hInt == SkipHexDigits(val, i1 + 2)
      hFrac == IF CharAt(val, hInt) = "." THEN SkipHexDigits(val, hInt + 1) ELSE hInt
      hDigits == (hInt - (i1 + 2)) + (IF hFrac > hInt THEN hFrac - hInt - 1 ELSE 0)
  IN IF MatchesNoCase(val, i1, "infinity", 0) THEN i1 + 8
     ELSE IF MatchesNoCase(val, i1, "inf", 0) THEN i1 + 3
     ELSE IF MatchesNoCase(val, i1, "nan", 0) THEN i1 + 3
     ELSE IF MatchesNoCase(val, i1, "0x", 0) /\ hDigits > 0 THEN ExponentEnd(val, hFrac, "p")
     ELSE IF dDigits > 0 THEN ExponentEnd(val, dFrac, "e")
     ELSE 0

\* a NULL char pointer (no query column of the model carries this text)
NULL_STR == "<NULL>"

\* get_value without its strtod step
get_value_long(tag, name, val) ==
  IF val = NULL_STR \/ val = "" THEN "0"
  ELSE IF val = "off" \/ val = "f" \/ val = "(disabled)" THEN "0"
  ELSE IF val = "on" \/ val = "t" THEN "1"
  ELSE IF val = "NaN" THEN val
  ELSE IF strtol_end(val) = Len(val) THEN val
  ELSE "1"

\* get_value(tag, name, val)
get_value(tag, name, val) ==
  IF val = NULL_STR \/ val = "" THEN "0"
  ELSE IF val = "off" \/ val = "f" \/ val = "(disabled)" THEN "0"
  ELSE IF val = "on" \/ val = "t" THEN "1"
  ELSE IF val = "NaN" THEN val
  ELSE IF strtol_end(val) = Len(val) THEN val
  ELSE IF strtod_end(val) = Len(val) THEN val
  ELSE "1"

RECURSIVE safe_prometheus_key_additional_length(_)
safe_prometheus_key_additional_length(key) ==
  IF key = "" THEN 0
  ELSE (IF CharAt(key, 0) = "\"" \/ CharAt(key, 0) = "\\" THEN 1 ELSE 0)
       + safe_prometheus_key_additional_length(SubSeq(key, 2, Len(key)))

RECURSIVE safe_key_loop(_, _, _)
\* the while loop of safe_prometheus_key from index i with the output so far;
\* a NUL written in the middle ends the C string that the caller sees
safe_key_loop(key, i, escaped) ==
  IF i >= Len(key) THEN escaped
  ELSE IF CharAt(key, i) = "."
       THEN IF i = Len(key) - 1 THEN escaped
            ELSE safe_key_loop(key, i + 1, escaped \o "_")
       ELSE IF CharAt(key, i) = "\"" \/ CharAt(key, i) = "\\"
            THEN safe_key_loop(key, i + 1, escaped \o "\\" \o CharAt(key, i))
            ELSE safe_key_loop(key, i + 1, escaped \o CharAt(key, i))

safe_prometheus_key(key) ==
  IF key = NULL_STR \/ key = "" THEN "" ELSE safe_key_loop(key, 0, "")

(***************************************************************************)
(* The bridge: metrics keyed by name (adaptive radix tree), each metric a  *)
(* deque of definitions, each definition a deque of attributes and a deque *)
(* of values                                                               *)
(***************************************************************************)
Attr(k, v) == [key |-> k, value |-> v]
Attrs(as, vs) == [attributes |-> as, values |-> vs]
Metric(n, h, t, defs) == [name |-> n, help |-> h, type |-> t, definitions |-> defs]

\* bridge->metrics holds the metrics in insertion order; the tree order is
\* applied by the iterator
art_contains(metrics, key) == \E i \in 1..Len(metrics) : metrics[i].name = key

art_index(metrics, key) == CHOOSE i \in 1..Len(metrics) : metrics[i].name = key

\* pgexporter_art_search: the metric stored under key (only called when present)
art_search(metrics, key) == metrics[art_index(metrics, key)]

\* pgexporter_art_insert: a key that is present keeps its value
art_insert(metrics, key, value) ==
  IF art_contains(metrics, key) THEN metrics ELSE Append(metrics, value)

\* store a changed metric object back (the C code mutates it through the pointer)
art_update(metrics, m) == [metrics EXCEPT ![art_index(metrics, m.name)] = m]

\* pgexporter_deque_add on metric->definitions
add_definition(m, attrs) == [m EXCEPT !.definitions = Append(@, attrs)]

RECURSIVE art_sorted(_)
\* the names in the order pgexporter_art_iterator_next visits them
art_sorted(names) ==
  IF names = {} THEN <<>>
  ELSE LET least == CHOOSE n \in names : \A o \in names \ {n} : StrLess(n, o)
       IN <<least>> \o art_sorted(names \ {least})

art_iterator(metrics) == art_sorted({metrics[i].name : i \in 1..Len(metrics)})

(***************************************************************************)
(* Text formatter (the serialization loop of metrics_page)                 *)
(***************************************************************************)
RECURSIVE attributes_text(_, _)
attributes_text(as, i) ==
  IF i > Len(as) THEN ""
  ELSE as[i].key \o "=\"" \o as[i].value \o "\""
       \o (IF i < Len(as) THEN ", " ELSE "")
       \o attributes_text(as, i + 1)

\* pgexporter_deque_peek_last(attrs_data->values)
peek_last(values) == values[Len(values)]

definition_text(name, d) ==
  name \o "{" \o attributes_text(d.attributes, 1) \o "} " \o peek_last(d.values) \o "\n"

RECURSIVE definitions_text(_, _, _)
definitions_text(name, defs, i) ==
  IF i > Len(defs) THEN ""
  ELSE definition_text(name, defs[i]) \o definitions_text(name, defs, i + 1)

\* the chunk built for one metric of the bridge
metric_text(m) ==
  "#HELP " \o m.name \o " " \o m.help \o "\n"
  \o "#TYPE " \o m.name \o " " \o m.type \o "\n"
  \o definitions_text(m.name, m.definitions, 1)
  \o "\n"

\* a chunk without the CRLF that ends it
send_chunk_text_open(data) == Hex(Len(data)) \o "\r\n" \o data

\* the message send_chunk writes for data
send_chunk_text(data) == Hex(Len(data)) \o "\r\n" \o data \o "\r\n"

header_cached(now) ==
  "HTTP/1.1 200 OK\r\n"
  \o "Content-Type: text/plain; version=0.0.1; charset=utf-8\r\n"
  \o "Date: " \o time_buf(now) \o "\r\n"

header_sent(now) == header_cached(now) \o "Transfer-Encoding: chunked\r\n" \o "\r\n"

footer_text == "0\r\n\r\n"

(***************************************************************************)
(* The cache (struct prometheus_cache without its lock word)               *)
(***************************************************************************)
\* the test of the cache age alone
is_metrics_cache_age_configured(cfg) ==
  cfg.metrics_cache_max_age # PGEXPORTER_PROMETHEUS_CACHE_DISABLED

is_metrics_cache_configured(cfg) ==
  IF cfg.metrics = 0 THEN FALSE
  ELSE cfg.metrics_cache_max_age # PGEXPORTER_PROMETHEUS_CACHE_DISABLED

\* the validity test without the comparison of valid_until with the clock
is_metrics_cache_valid_unexpired(c, now) ==
  IF c.valid_until = 0 \/ Len(c.data) = 0 THEN FALSE
  ELSE TRUE

is_metrics_cache_valid(c, now) ==
  IF c.valid_until = 0 \/ Len(c.data) = 0 THEN FALSE
  ELSE now <= c.valid_until

metrics_cache_size_to_alloc(cfg) ==
  IF is_metrics_cache_configured(cfg)
  THEN IF cfg.metrics_cache_max_size > 0
       THEN Min(cfg.metrics_cache_max_size, PROMETHEUS_MAX_CACHE_SIZE)
       ELSE PROMETHEUS_DEFAULT_CACHE_SIZE
  ELSE 0

\* the cache after pgexporter_init_prometheus_cache succeeded
init_prometheus_cache(cfg) ==
  [data |-> "", valid_until |-> 0, size |-> metrics_cache_size_to_alloc(cfg)]

\* an invalidation that empties the body and keeps valid_until
metrics_cache_invalidate_body(c) == [c EXCEPT !.data = ""]

metrics_cache_invalidate(c) == [c EXCEPT !.data = "", !.valid_until = 0]

\* metrics_cache_append on failure returns without invalidating the cache
metrics_cache_append_keep(cfg, c, data) ==
  IF ~is_metrics_cache_configured(cfg) THEN [cache |-> c, ok |-> FALSE]
  ELSE IF Len(c.data) + Len(data) >= c.size
       THEN [cache |-> c, ok |-> FALSE]
       ELSE [cache |-> [c EXCEPT !.data = @ \o data], ok |-> TRUE]

\* metrics_cache_append: the cache afterwards and the value returned
metrics_cache_append(cfg, c, data) ==
  IF ~is_metrics_cache_configured(cfg) THEN [cache |-> c, ok |-> FALSE]
  ELSE IF Len(c.data) + Len(data) >= c.size
       THEN [cache |-> metrics_cache_invalidate(c), ok |-> FALSE]
       ELSE [cache |-> [c EXCEPT !.data = @ \o data], ok |-> TRUE]

\* cache->data[origin_length + append_length + 1] = 0 of metrics_cache_append
\* writes behind the size bytes of the buffer
append_out_of_bounds(cfg, c, data) ==
  /\ is_metrics_cache_configured(cfg)
  /\ Len(c.data) + Len(data) < c.size
  /\ Len(c.data) + Len(data) + 1 >= c.size

\* metrics_cache_finalize: the cache afterwards and the value returned
metrics_cache_finalize(cfg, c, now) ==
  IF ~is_metrics_cache_configured(cfg) THEN [cache |-> c, ok |-> FALSE]
  ELSE LET v == now + cfg.metrics_cache_max_age
       IN [cache |-> [c EXCEPT !.valid_until = v], ok |-> v > now]

(***************************************************************************)
(* Queries and tuples (the query interface consumed by the collectors)     *)
(***************************************************************************)
\* struct tuple: server is the index of the server the tuple came from
Tuple(srv, cols) == [server |-> srv, data |-> cols]

\* struct query, and the NULL query pointer
Query(t, ns, ts) == [isnull |-> FALSE, tag |-> t, names |-> ns, tuples |-> ts]
NULL_QUERY == [isnull |-> TRUE, tag |-> "", names |-> <<>>, tuples |-> <<>>]

\* pgexporter_get_column(col, tuple), col counted from 0
get_column(col, tuple) == tuple.data[col + 1]

\* pgexporter_get_column_by_name(name, query, tuple)
get_column_by_name(name, query, tuple) ==
  IF \E i \in 1..Len(query.names) : query.names[i] = name
  THEN tuple.data[CHOOSE i \in 1..Len(query.names) : query.names[i] = name]
  ELSE NULL_STR

\* config->servers[server].name; a slot past number_of_servers is zero-filled
server_name(cfg, server) ==
  IF server <= Len(cfg.servers) THEN cfg.servers[server].name ELSE ""

RECURSIVE insert_by_data0(_, _, _)
\* put tuple t after the last tuple whose first column is not greater
insert_by_data0(tuples, t, i) ==
  IF i > Len(tuples) THEN Append(tuples, t)
  ELSE IF StrLess(get_column(0, t), get_column(0, tuples[i]))
       THEN SubSeq(tuples, 1, i - 1) \o <<t>> \o SubSeq(tuples, i, Len(tuples))
       ELSE insert_by_data0(tuples, t, i + 1)

RECURSIVE merge_tuples(_, _, _, _)
merge_tuples(tuples, more, i, sort) ==
  IF i > Len(more) THEN tuples
  ELSE merge_tuples(IF sort = SORT_DATA0 THEN insert_by_data0(tuples, more[i], 1)
                    ELSE Append(tuples, more[i]),
                    more, i + 1, sort)

\* pgexporter_merge_queries(all, query, sort): a stable merge
pgexporter_merge_queries(all, query, sort) ==
  IF all.isnull THEN query
  ELSE [all EXCEPT !.tuples = merge_tuples(@, query.tuples, 1, sort)]

RECURSIVE query_all_servers(_, _, _, _, _, _)
\* the loop "for each server with fd != -1: query it, merge on success"
query_all_servers(cfg, be, what, sort, server, all) ==
  IF server > Len(cfg.servers) THEN all
  ELSE IF cfg.servers[server].fd # -1 /\ ~be[server][what].isnull
       THEN query_all_servers(cfg, be, what, sort, server + 1,
                              pgexporter_merge_queries(all, be[server][what], sort))
       ELSE query_all_servers(cfg, be, what, sort, server + 1, all)

(***************************************************************************)
(* Built-in collectors                                                     *)
(***************************************************************************)
RECURSIVE collector_pass_from(_, _, _)
collector_pass_from(cfg, collector, i) ==
  IF i > Len(cfg.collectors) THEN FALSE
  ELSE IF cfg.collectors[i] = collector THEN TRUE
  ELSE collector_pass_from(cfg, collector, i + 1)

\* collector_pass comparing the first entry of the list only
collector_pass_first(cfg, collector) ==
  IF Len(cfg.collectors) = 0 THEN TRUE ELSE cfg.collectors[1] = collector

collector_pass(cfg, collector) ==
  IF Len(cfg.collectors) = 0 THEN TRUE ELSE collector_pass_from(cfg, collector, 1)

\* a metric with one definition that has no attribute
plain_metric(name, help, type, value) ==
  Metric(name, help, type, <<Attrs(<<>>, <<value>>)>>)

general_information(cfg, metrics) ==
  LET m1 == art_insert(metrics, "pgexporter_state",
                       plain_metric("pgexporter_state", "The state of pgexporter", "gauge", "1"))
      m2 == art_insert(m1, "pgexporter_logging_info",
                       plain_metric("pgexporter_logging_info", "The number of INFO logging statements",
                                    "gauge", ToString(cfg.logging_info)))
      m3 == art_insert(m2, "pgexporter_logging_warn",
                       plain_metric("pgexporter_logging_warn", "The number of WARN logging statements",
                                    "gauge", ToString(cfg.logging_warn)))
      m4 == art_insert(m3, "pgexporter_logging_error",
                       plain_metric("pgexporter_logging_error", "The number of ERROR logging statements",
                                    "gauge", ToString(cfg.logging_error)))
  IN art_insert(m4, "pgexporter_logging_fatal",
                plain_metric("pgexporter_logging_fatal", "The number of FATAL logging statements",
                             "gauge", ToString(cfg.logging_fatal)))

core_information(cfg, metrics) ==
  art_insert(metrics, "pgexporter_version",
             Metric("pgexporter_version", "The pgexporter version", "counter",
                    <<Attrs(<<Attr("pgexporter_version", VERSION)>>, <<"1">>)>>))

\* a server_information that reports the connected servers only
server_information_connected(cfg, metrics) ==
  art_insert(metrics, "pgexporter_postgresql_active",
             Metric("pgexporter_postgresql_active", "The state of PostgreSQL", "gauge",
                    SelectSeq([server \in 1..Len(cfg.servers) |->
                                 Attrs(<<Attr("server", cfg.servers[server].name)>>,
                                       <<IF cfg.servers[server].fd # -1 THEN "1" ELSE "0">>)],
                              LAMBDA a : a.values = <<"1">>)))

server_information(cfg, metrics) ==
  art_insert(metrics, "pgexporter_postgresql_active",
             Metric("pgexporter_postgresql_active", "The state of PostgreSQL", "gauge",
                    [server \in 1..Len(cfg.servers) |->
                       Attrs(<<Attr("server", cfg.servers[server].name)>>,
                             <<IF cfg.servers[server].fd # -1 THEN "1" ELSE "0">>)]))

\* version, uptime and primary label the k-th merged tuple with the k-th server
version_information(cfg, be, metrics) ==
  LET all == query_all_servers(cfg, be, "version", SORT_NAME, 1, NULL_QUERY)
  IN IF ~all.isnull /\ all.tuples # <<>>
     THEN art_insert(metrics, "pgexporter_postgresql_version",
            Metric("pgexporter_postgresql_version", "The PostgreSQL version", "gauge",
                   [k \in 1..Len(all.tuples) |->
                      Attrs(<<Attr("server", server_name(cfg, k)),
                              Attr("version", safe_prometheus_key(get_column(0, all.tuples[k]))),
                              Attr("minor_version", safe_prometheus_key(get_column(1, all.tuples[k])))>>,
                            <<"1">>)]))
     ELSE metrics

uptime_information(cfg, be, metrics) ==
  LET all == query_all_servers(cfg, be, "uptime", SORT_NAME, 1, NULL_QUERY)
  IN IF ~all.isnull /\ all.tuples # <<>>
     THEN art_insert(metrics, "pgexporter_postgresql_uptime",
            Metric("pgexporter_postgresql_uptime", "The PostgreSQL uptime in seconds", "counter",
                   [k \in 1..Len(all.tuples) |->
                      Attrs(<<Attr("server", server_name(cfg, k))>>,
                            <<safe_prometheus_key(get_column(0, all.tuples[k]))>>)]))
     ELSE metrics

primary_information(cfg, be, metrics) ==
  LET all == query_all_servers(cfg, be, "primary", SORT_NAME, 1, NULL_QUERY)
  IN IF ~all.isnull /\ all.tuples # <<>>
     THEN art_insert(metrics, "pgexporter_postgresql_primary",
            Metric("pgexporter_postgresql_primary", "Is the PostgreSQL instance the primary", "gauge",
                   [k \in 1..Len(all.tuples) |->
                      Attrs(<<Attr("server", server_name(cfg, k))>>,
                            <<IF get_column(0, all.tuples[k]) = "t" THEN "1" ELSE "0">>)]))
     ELSE metrics

\* the series appended for one settings tuple
settings_definition(cfg, all, t) ==
  Attrs(<<Attr("server", server_name(cfg, t.server))>>,
        <<get_value(all.tag, get_column(0, t), get_column(1, t))>>)

RECURSIVE settings_inner(_, _, _, _)
\* the inner while of settings_information: the metric afterwards and the
\* tuple current points to when the loop is left
settings_inner(cfg, all, current, metric) ==
  IF current <= Len(all.tuples)
     /\ (current = Len(all.tuples)
         \/ get_column(0, all.tuples[current]) = get_column(0, all.tuples[current + 1]))
  THEN LET m == add_definition(metric, settings_definition(cfg, all, all.tuples[current]))
       IN IF current < Len(all.tuples)
             /\ get_column(0, all.tuples[current]) = get_column(0, all.tuples[current + 1])
          THEN settings_inner(cfg, all, current + 1, m)
          ELSE [metric |-> m, current |-> current]
  ELSE [metric |-> metric, current |-> current]

RECURSIVE settings_outer(_, _, _, _)
\* the outer while of settings_information from tuple current
settings_outer(cfg, all, current, metrics) ==
  IF current > Len(all.tuples) THEN metrics
  ELSE LET t == all.tuples[current]
           safe_key == safe_prometheus_key(get_column(0, t))
           metric_name == "pgexporter_" \o all.tag \o "_" \o safe_key
           ms == IF art_contains(metrics, metric_name) THEN metrics
                 ELSE art_insert(metrics, metric_name,
                                 Metric(metric_name, get_column(2, t), "gauge", <<>>))
           r == settings_inner(cfg, all, current, art_search(ms, metric_name))
       IN settings_outer(cfg, all, r.current + 1, art_update(ms, r.metric))

settings_information(cfg, be, metrics) ==
  IF ~collector_pass(cfg, "settings") THEN metrics
  ELSE LET all == query_all_servers(cfg, be, "settings", SORT_DATA0, 1, NULL_QUERY)
       IN IF all.isnull THEN metrics ELSE settings_outer(cfg, all, 1, metrics)

(***************************************************************************)
(* Extension collector                                                     *)
(***************************************************************************)
\* pgexporter_query_execute for the function call that yields metric_name
query_execute(be, server, metric_name) ==
  IF metric_name \in DOMAIN be[server].exec THEN be[server].exec[metric_name] ELSE NULL_QUERY

extension_metric_name(function, input) ==
  IF input = INPUT_DATA THEN function \o "_data"
  ELSE IF input = INPUT_WAL THEN function \o "_wal"
  ELSE function

\* the definition extension_function appends for one tuple
extension_definition(cfg, server, query, tuple, input) ==
  IF input # INPUT_NO
  THEN Attrs(<<Attr("server", cfg.servers[server].name),
               Attr("location", IF input = INPUT_DATA THEN cfg.servers[server].data
                                ELSE cfg.servers[server].wal)>>,
             <<tuple.data[1]>>)
  ELSE Attrs(<<Attr("server", cfg.servers[server].name)>>
             \o [col \in 1..Len(query.names) |-> Attr(query.names[col], tuple.data[col])],
             <<"1">>)

RECURSIVE extension_function_loop_unguarded(_, _, _, _, _, _)
\* the server loop of extension_function without the test of the extension flag
extension_function_loop_unguarded(cfg, be, metric, function, input, server) ==
  IF server > Len(cfg.servers) THEN [cfg |-> cfg, metric |-> metric]
  ELSE IF cfg.servers[server].fd # -1
       THEN LET execute ==
                  IF input = INPUT_NO THEN TRUE
                  ELSE IF input = INPUT_DATA /\ Len(cfg.servers[server].data) > 0 THEN TRUE
                  ELSE IF input = INPUT_WAL /\ Len(cfg.servers[server].wal) > 0 THEN TRUE
                  ELSE FALSE
                query == IF execute THEN query_execute(be, server, metric.name) ELSE NULL_QUERY
            IN IF query.isnull
               THEN extension_function_loop_unguarded(
                      [cfg EXCEPT !.servers[server].extension = FALSE],
                      be, metric, function, input, server + 1)
               ELSE extension_function_loop_unguarded(
                      [cfg EXCEPT !.servers[server].extension = TRUE], be,
                      [metric EXCEPT !.definitions = @ \o
                         [k \in 1..Len(query.tuples) |->
                            extension_definition(cfg, server, query, query.tuples[k], input)]],
                      function, input, server + 1)
       ELSE extension_function_loop_unguarded(cfg, be, metric, function, input, server + 1)

RECURSIVE extension_function_loop(_, _, _, _, _, _)
\* the server loop of extension_function: the configuration and metric afterwards
extension_function_loop(cfg, be, metric, function, input, server) ==
  IF server > Len(cfg.servers) THEN [cfg |-> cfg, metric |-> metric]
  ELSE IF cfg.servers[server].extension /\ cfg.servers[server].fd # -1
       THEN LET execute ==
                  IF input = INPUT_NO THEN TRUE
                  ELSE IF input = INPUT_DATA /\ Len(cfg.servers[server].data) > 0 THEN TRUE
                  ELSE IF input = INPUT_WAL /\ Len(cfg.servers[server].wal) > 0 THEN TRUE
                  ELSE FALSE
                query == IF execute THEN query_execute(be, server, metric.name) ELSE NULL_QUERY
            IN IF query.isnull
               THEN extension_function_loop([cfg EXCEPT !.servers[server].extension = FALSE],
                                            be, metric, function, input, server + 1)
               ELSE extension_function_loop(
                      [cfg EXCEPT !.servers[server].extension = TRUE], be,
                      [metric EXCEPT !.definitions = @ \o
                         [k \in 1..Len(query.tuples) |->
                            extension_definition(cfg, server, query, query.tuples[k], input)]],
                      function, input, server + 1)
       ELSE extension_function_loop(cfg, be, metric, function, input, server + 1)

\* extension_function: the configuration and the bridge afterwards
extension_function(cfg, be, metrics, function, input, description, type) ==
  LET metric_name == extension_metric_name(function, input)
      r == extension_function_loop(cfg, be, Metric(metric_name, description, type, <<>>),
                                   function, input, 1)
  IN [cfg |-> r.cfg, metrics |-> art_insert(metrics, metric_name, r.metric)]

RECURSIVE extension_tuples(_, _, _, _, _)
\* the tuple loop of extension_information
extension_tuples(cfg, be, metrics, tuples, k) ==
  IF k > Len(tuples) THEN [cfg |-> cfg, metrics |-> metrics]
  ELSE LET d == tuples[k].data IN
       IF d[2] = "f" \/ d[2] = "false"
       THEN IF d[1] # "pgexporter_get_functions"
            THEN LET r == extension_function(cfg, be, metrics, d[1], INPUT_NO, d[3], d[4])
                 IN extension_tuples(r.cfg, be, r.metrics, tuples, k + 1)
            ELSE extension_tuples(cfg, be, metrics, tuples, k + 1)
       ELSE IF d[1] # "pgexporter_is_supported"
            THEN LET r1 == extension_function(cfg, be, metrics, d[1], INPUT_DATA, d[3], d[4])
                     r2 == extension_function(r1.cfg, be, r1.metrics, d[1], INPUT_WAL, d[3], d[4])
                 IN extension_tuples(r2.cfg, be, r2.metrics, tuples, k + 1)
            ELSE extension_tuples(cfg, be, metrics, tuples, k + 1)

RECURSIVE extension_servers(_, _, _, _)
\* the server loop of extension_information (cont is true while it runs)
extension_servers(cfg, be, metrics, server) ==
  IF server > Len(cfg.servers) THEN [cfg |-> cfg, metrics |-> metrics]
  ELSE IF cfg.servers[server].extension /\ cfg.servers[server].fd # -1
       THEN IF ~be[server].functions.isnull
            THEN extension_tuples(cfg, be, metrics, be[server].functions.tuples, 1)
            ELSE extension_servers([cfg EXCEPT !.servers[server].extension = FALSE],
                                   be, metrics, server + 1)
       ELSE extension_servers(cfg, be, metrics, server + 1)

\* extension_information: the configuration and the bridge afterwards
extension_information(cfg, be, metrics) ==
  IF ~collector_pass(cfg, "extension") THEN [cfg |-> cfg, metrics |-> metrics]
  ELSE extension_servers(cfg, be, metrics, 1)

(***************************************************************************)
(* Custom metrics                                                          *)
(***************************************************************************)
\* struct query_alts, and the NULL variant
NULL_ALT == [isnull |-> TRUE, is_histogram |-> FALSE, columns |-> <<>>]
QueryAlt(hist, cols) == [isnull |-> FALSE, is_histogram |-> hist, columns |-> cols]
Column(n, t, d) == [name |-> n, type |-> t, description |-> d]

\* pgexporter_get_query_alt(prom->root, server): the variant for the server
pgexporter_get_query_alt(prom, server) == prom.root[server]

\* pgexporter_custom_query for the metric tag on a server: error code and query
pgexporter_custom_query(be, server, tag) == be[server].custom[tag]

\* one node of the query list
QueryNode(prom, alt, r) ==
  [query |-> r.query, query_alt |-> alt, tag |-> prom.tag,
   sort_type |-> prom.sort_type, error |-> r.error]

\* link a node: a last node without a query is overwritten
query_list_add(q_list, node) ==
  IF q_list = <<>> THEN <<node>>
  ELSE IF ~q_list[Len(q_list)].query.isnull THEN Append(q_list, node)
  ELSE [q_list EXCEPT ![Len(q_list)] = node]

custom_query_sent_both(cfg, prom, server) ==
  /\ cfg.servers[server].fd # -1
  /\ ~pgexporter_get_query_alt(prom, server).isnull

\* whether custom_metrics sends the query of metric prom to the server
custom_query_sent(cfg, prom, server) ==
  /\ cfg.servers[server].fd # -1
  /\ ~(\/ (prom.server_query_type = SERVER_QUERY_PRIMARY /\ cfg.servers[server].state # SERVER_PRIMARY)
       \/ (prom.server_query_type = SERVER_QUERY_REPLICA /\ cfg.servers[server].state # SERVER_REPLICA))
  /\ ~pgexporter_get_query_alt(prom, server).isnull

RECURSIVE custom_query_loop(_, _, _, _, _)
\* the two nested for loops of custom_metrics from (metric i, server)
custom_query_loop(cfg, be, i, server, q_list) ==
  IF i > Len(cfg.prometheus) THEN q_list
  ELSE IF ~collector_pass(cfg, cfg.prometheus[i].collector) \/ server > Len(cfg.servers)
       THEN custom_query_loop(cfg, be, i + 1, 1, q_list)
       ELSE IF custom_query_sent(cfg, cfg.prometheus[i], server)
            THEN custom_query_loop(cfg, be, i, server + 1,
                   query_list_add(q_list,
                     QueryNode(cfg.prometheus[i],
                               pgexporter_get_query_alt(cfg.prometheus[i], server),
                               pgexporter_custom_query(be, server, cfg.prometheus[i].tag))))
            ELSE custom_query_loop(cfg, be, i, server + 1, q_list)

gauge_counter_name(temp, i) ==
  IF Len(temp.query_alt.columns[i].name) > 0
  THEN "pgexporter_" \o temp.tag \o "_" \o temp.query_alt.columns[i].name
  ELSE "pgexporter_" \o temp.tag

gauge_counter_type(t) ==
  IF t = GAUGE_TYPE THEN "gauge" ELSE IF t = COUNTER_TYPE THEN "counter" ELSE "gauge"

\* the indexes of the label columns, ascending
RECURSIVE label_columns(_, _)
label_columns(columns, j) ==
  IF j > Len(columns) THEN <<>>
  ELSE (IF columns[j].type = LABEL_TYPE THEN <<j>> ELSE <<>>) \o label_columns(columns, j + 1)

\* the definition handle_gauge_counter appends for a tuple and value column i
gauge_counter_definition(cfg, temp, tuple, i) ==
  LET ls == label_columns(temp.query_alt.columns, 1)
  IN Attrs(<<Attr("server", server_name(cfg, tuple.server))>>
           \o [k \in 1..Len(ls) |->
                 Attr(temp.query_alt.columns[ls[k]].name,
                      safe_prometheus_key(get_column(ls[k] - 1, tuple)))],
           <<get_value(temp.tag, temp.query_alt.columns[i].name, get_column(i - 1, tuple))>>)

RECURSIVE gauge_counter_columns(_, _, _, _)
\* the column loop of handle_gauge_counter from column i
gauge_counter_columns(cfg, metrics, temp, i) ==
  IF i > Len(temp.query_alt.columns) THEN metrics
  ELSE IF temp.query_alt.columns[i].type = LABEL_TYPE
       THEN gauge_counter_columns(cfg, metrics, temp, i + 1)
       ELSE LET metric_name == gauge_counter_name(temp, i)
                ms == IF art_contains(metrics, metric_name) THEN metrics
                      ELSE art_insert(metrics, metric_name,
                             Metric(metric_name, temp.query_alt.columns[i].description,
                                    gauge_counter_type(temp.query_alt.columns[i].type), <<>>))
                metric == art_search(ms, metric_name)
                filled == [metric EXCEPT !.definitions = @ \o
                             [k \in 1..Len(temp.query.tuples) |->
                                gauge_counter_definition(cfg, temp, temp.query.tuples[k], i)]]
            IN gauge_counter_columns(cfg, art_update(ms, filled), temp, i + 1)

handle_gauge_counter(cfg, metrics, temp) ==
  IF temp.query.isnull \/ temp.query.tuples = <<>> THEN metrics
  ELSE gauge_counter_columns(cfg, metrics, temp, 1)

RECURSIVE strtok_all(_, _, _)
\* the tokens strtok(data, ",") returns in turn: the non-empty runs between commas
strtok_all(data, i, token) ==
  IF i >= Len(data) THEN (IF token = "" THEN <<>> ELSE <<token>>)
  ELSE IF CharAt(data, i) = ","
       THEN (IF token = "" THEN <<>> ELSE <<token>>) \o strtok_all(data, i + 1, "")
       ELSE strtok_all(data, i + 1, token \o CharAt(data, i))

\* parse_list(list_str, strs, &n_strs): strs afterwards (entries past the
\* parsed ones keep what they held) and n_strs
parse_list(list_str, strs) ==
  LET data == SubSeq(list_str, 2, Len(list_str) - 1)
      tokens == strtok_all(data, 0, "")
  IN [strs |-> tokens \o SubSeq(strs, Len(tokens) + 1, Len(strs)), n_strs |-> Len(tokens)]

\* an array read that is off by one
array_entry_next(strs, i) == IF i + 1 <= Len(strs) THEN strs[i + 1] ELSE NULL_STR

\* strs[i] (i from 1); an entry that was never written is the initial NULL
array_entry(strs, i) == IF i <= Len(strs) THEN strs[i] ELSE NULL_STR

\* first column of type histogram, or one past the last column
RECURSIVE histogram_index(_, _)
histogram_index(columns, h) ==
  IF h > Len(columns) THEN h
  ELSE IF columns[h].type = HISTOGRAM_TYPE THEN h
  ELSE histogram_index(columns, h + 1)

\* the "other attributes" of a histogram series: the columns before h_idx
histogram_labels(temp, h_idx, current) ==
  [j \in 1..(h_idx - 1) |-> Attr(temp.query_alt.columns[j].name, get_column(j - 1, current))]

RECURSIVE histogram_tuples(_, _, _, _, _, _)
\* the tuple loop of handle_histogram: h holds the three metrics and both arrays
histogram_tuples(cfg, temp, h_idx, names, k, h) ==
  IF k > Len(temp.query.tuples) THEN h
  ELSE LET current == temp.query.tuples[k]
           bounds == parse_list(get_column_by_name(names[3], temp.query, current), h.bounds_arr)
           buckets == parse_list(get_column_by_name(names[4], temp.query, current), h.buckets_arr)
           server == Attr("server", server_name(cfg, current.server))
           others == histogram_labels(temp, h_idx, current)
           finite == [i \in 1..bounds.n_strs |->
                        Attrs(<<Attr("le", array_entry(bounds.strs, i)), server>> \o others,
                              <<array_entry(buckets.strs, i)>>)]
           inf == Attrs(<<Attr("le", "+Inf"), server>> \o others,
                        <<get_column_by_name(names[2], temp.query, current)>>)
           sum == Attrs(<<server>> \o others, <<get_column_by_name(names[1], temp.query, current)>>)
           count == Attrs(<<server>> \o others, <<get_column_by_name(names[2], temp.query, current)>>)
       IN histogram_tuples(cfg, temp, h_idx, names, k + 1,
            [bucket_metric |-> [h.bucket_metric EXCEPT !.definitions = (@ \o finite) \o <<inf>>],
             sum_metric |-> add_definition(h.sum_metric, sum),
             count_metric |-> add_definition(h.count_metric, count),
             bounds_arr |-> bounds.strs,
             buckets_arr |-> buckets.strs])

handle_histogram(cfg, metrics, temp) ==
  LET h_idx == histogram_index(temp.query_alt.columns, 1)
      column == temp.query_alt.columns[h_idx]
      names == <<column.name \o "_sum", column.name \o "_count", column.name, column.name \o "_bucket">>
  IN IF temp.query.isnull \/ temp.query.tuples = <<>> THEN metrics
     ELSE LET h == histogram_tuples(cfg, temp, h_idx, names, 1,
                     [bucket_metric |-> Metric("pgexporter_" \o temp.tag \o "_bucket",
                                               column.description, "histogram", <<>>),
                      sum_metric |-> Metric("pgexporter_" \o temp.tag \o "_sum",
                                            column.description, "histogram", <<>>),
                      count_metric |-> Metric("pgexporter_" \o temp.tag \o "_count",
                                              column.description, "histogram", <<>>),
                      bounds_arr |-> <<>>,
                      buckets_arr |-> <<>>])
              m1 == art_insert(metrics, h.bucket_metric.name, h.bucket_metric)
              m2 == art_insert(m1, h.sum_metric.name, h.sum_metric)
          IN art_insert(m2, h.count_metric.name, h.count_metric)

RECURSIVE custom_process(_, _, _, _)
\* the "process query results" loop of custom_metrics
custom_process(cfg, metrics, q_list, k) ==
  IF k > Len(q_list) THEN metrics
  ELSE LET temp == q_list[k] IN
       IF temp.error \/ (~temp.query.isnull /\ temp.query.tuples # <<>>)
       THEN custom_process(cfg,
                           IF temp.query_alt.is_histogram
                           THEN handle_histogram(cfg, metrics, temp)
                           ELSE handle_gauge_counter(cfg, metrics, temp),
                           q_list, k + 1)
       ELSE custom_process(cfg, metrics, q_list, k + 1)

custom_metrics(cfg, be, metrics) ==
  custom_process(cfg, metrics, custom_query_loop(cfg, be, 1, 1, <<>>), 1)

(***************************************************************************)
(* Connection lifecycle                                                    *)
(***************************************************************************)
\* pgexporter_open_connections: a server that can be reached gets a descriptor
pgexporter_open_connections(cfg, be) ==
  [cfg EXCEPT !.servers = [s \in 1..Len(cfg.servers) |->
     [cfg.servers[s] EXCEPT !.fd = IF be[s].up THEN 2 + s ELSE -1]]]

\* pgexporter_close_connections
pgexporter_close_connections(cfg) ==
  [cfg EXCEPT !.servers = [s \in 1..Len(cfg.servers) |-> [cfg.servers[s] EXCEPT !.fd = -1]]]

(***************************************************************************)
(* State                                                                   *)
(***************************************************************************)
VARIABLES
  config,      \* the shared configuration block (struct configuration)
  backend,     \* what each PostgreSQL server answers; fixed in a behaviour
  cache,       \* the shared cache block: data, valid_until, size
  lock,        \* cache->lock
  now,         \* time(NULL)
  budget,      \* environment events (ticks, faults) the behaviour may still see
  pc,          \* position of each /metrics worker in metrics_page
  start_time,  \* start_time of each worker
  sent,        \* the bytes each worker has written to its client
  bridge,      \* each worker's bridge pointer and the metrics it holds
  iter,        \* names the worker's metrics_iterator has yet to visit
  reset_pc,    \* position of the pgexporter_prometheus_reset caller
  holds,       \* history: processes between a successful CAS and their release
  path,        \* history: the branch each worker took under the lock
  overflowed,  \* history: a metrics_cache_append of the worker's scrape overflowed
  wfail,       \* history: a write to the worker's client failed
  ran,         \* history: the collectors each worker has run, in order
  blocks,      \* history: the names of the metrics each worker has serialized, in order
  arg,         \* the arguments of the function call under study
  result       \* what that call returned, "none" before it

vars == <<config, backend, cache, lock, now, budget, pc, start_time, sent, bridge,
          iter, reset_pc, holds, path, overflowed, wfail, ran, blocks, arg, result>>

\* the variables of the processes, which a single function call leaves alone
process_vars == <<config, backend, cache, lock, now, budget, pc, start_time, sent, bridge,
                  iter, reset_pc, holds, path, overflowed, wfail, ran, blocks>>

\* the forked /metrics workers, and the caller of pgexporter_prometheus_reset
Workers == {1, 2}
RESET == 0

\* amounts by which the clock is seen to advance
TickSteps == {1, 30}

CollectorOrder == <<"general", "core", "server", "version", "uptime", "primary",
                    "settings", "extension", "custom">>

NULL_BRIDGE == [ptr |-> "null", metrics |-> <<>>, destroyed |-> 0]

\* blocking_timeout > 0 ? blocking_timeout : 30
effective_blocking_timeout(cfg) ==
  IF cfg.blocking_timeout > 0 THEN cfg.blocking_timeout ELSE DEFAULT_BLOCKING_TIMEOUT

\* the collector with index i applied to the configuration and the bridge
run_collector(i, cfg, be, metrics) ==
  CASE i = 1 -> [cfg |-> cfg, metrics |-> general_information(cfg, metrics)]
    [] i = 2 -> [cfg |-> cfg, metrics |-> core_information(cfg, metrics)]
    [] i = 3 -> [cfg |-> cfg, metrics |-> server_information(cfg, metrics)]
    [] i = 4 -> [cfg |-> cfg, metrics |-> version_information(cfg, be, metrics)]
    [] i = 5 -> [cfg |-> cfg, metrics |-> uptime_information(cfg, be, metrics)]
    [] i = 6 -> [cfg |-> cfg, metrics |-> primary_information(cfg, be, metrics)]
    [] i = 7 -> [cfg |-> cfg, metrics |-> settings_information(cfg, be, metrics)]
    [] i = 8 -> extension_information(cfg, be, metrics)
    [] i = 9 -> [cfg |-> cfg, metrics |-> custom_metrics(cfg, be, metrics)]

RECURSIVE run_collectors(_, _, _, _, _)
\* the collector calls of metrics_page from the i-th on: the configuration and
\* the bridge afterwards, and the collectors that ran
run_collectors(i, cfg, be, metrics, done) ==
  IF i > Len(CollectorOrder) THEN [cfg |-> cfg, metrics |-> metrics, ran |-> done]
  ELSE LET r == run_collector(i, cfg, be, metrics)
       IN run_collectors(i + 1, r.cfg, be, r.metrics, Append(done, CollectorOrder[i]))

(***************************************************************************)
(* /metrics worker: metrics_page                                           *)
(***************************************************************************)
\* an injected fault (failed write, failed allocation) uses one event of the budget
Fault(failed) ==
  /\ failed => budget > 0
  /\ budget' = IF failed THEN budget - 1 ELSE budget

\* metrics_cache_append would overflow
cache_overflows(cfg, c, data) ==
  is_metrics_cache_configured(cfg) /\ Len(c.data) + Len(data) >= c.size

\* the error label of metrics_page: a non-NULL bridge is destroyed
error_bridge(b) ==
  IF b.ptr # "null" THEN [b EXCEPT !.ptr = "freed", !.destroyed = @ + 1] ELSE b

\* a worker is forked for an accepted /metrics request (workers are numbered in
\* the order the parent accepts their connections)
Request(w) ==
  /\ pc[w] = "idle"
  /\ \A v \in Workers : v < w => pc[v] # "idle"
  /\ pc' = [pc EXCEPT ![w] = "lock"]
  /\ start_time' = [start_time EXCEPT ![w] = now]
  /\ UNCHANGED <<config, backend, cache, lock, now, budget, sent, bridge, iter,
                 reset_pc, holds, path, overflowed, wfail, ran, blocks>>
  /\ UNCHANGED <<arg, result>>

\* a plain store in place of the compare-and-exchange: it never fails
store_succeeds(word) == word \in {STATE_FREE, STATE_IN_USE}

\* atomic_compare_exchange_strong(&cache->lock, FREE, IN_USE) of one caller
cas_succeeds(word) == word = STATE_FREE

LockAcquire(w) ==
  /\ pc[w] = "lock"
  /\ cas_succeeds(lock)
  /\ lock' = STATE_IN_USE
  /\ pc' = [pc EXCEPT ![w] = "locked"]
  /\ holds' = holds \cup {w}
  /\ UNCHANGED <<config, backend, cache, now, budget, start_time, sent, bridge, iter,
                 reset_pc, path, overflowed, wfail, ran, blocks>>
  /\ UNCHANGED <<arg, result>>

\* the else branch of the CAS: give up after the blocking timeout, else sleep
lock_wait_expired(cfg, start, t) == (t - start) >= effective_blocking_timeout(cfg)

LockBusy(w) ==
  /\ pc[w] = "lock"
  /\ ~cas_succeeds(lock)
  /\ IF lock_wait_expired(config, start_time[w], now)
     THEN /\ pc' = [pc EXCEPT ![w] = "error"]
          /\ path' = [path EXCEPT ![w] = "timeout"]
     ELSE /\ pc' = [pc EXCEPT ![w] = "sleep"]
          /\ path' = path
  /\ UNCHANGED <<config, backend, cache, lock, now, budget, start_time, sent, bridge, iter, reset_pc, holds, overflowed, wfail, ran, blocks>>
  /\ UNCHANGED <<arg, result>>

\* SLEEP_AND_GOTO(10000000L, retry_cache_locking)
Wake(w) ==
  /\ pc[w] = "sleep"
  /\ pc' = [pc EXCEPT ![w] = "lock"]
  /\ UNCHANGED <<config, backend, cache, lock, now, budget, start_time, sent, bridge, iter, reset_pc, holds, path, overflowed, wfail, ran, blocks>>
  /\ UNCHANGED <<arg, result>>

\* the condition of the cache-hit branch
serve_from_cache(cfg, c, t) == is_metrics_cache_configured(cfg) /\ is_metrics_cache_valid(c, t)

CacheHit(w) ==
  /\ pc[w] = "locked"
  /\ serve_from_cache(config, cache, now)
  /\ \E ok \in BOOLEAN :
       /\ Fault(~ok)
       /\ sent' = [sent EXCEPT ![w] = IF ok THEN @ \o cache.data ELSE @]
       /\ wfail' = [wfail EXCEPT ![w] = ~ok]
       /\ pc' = [pc EXCEPT ![w] = IF ok THEN "unlock" ELSE "error"]
  /\ path' = [path EXCEPT ![w] = "hit"]
  /\ UNCHANGED <<config, backend, cache, lock, now, start_time, bridge, iter,
                 reset_pc, holds, overflowed, ran, blocks>>
  /\ UNCHANGED <<arg, result>>

\* the cache-miss branch up to the creation of the bridge
CacheMiss(w) ==
  /\ pc[w] = "locked"
  /\ ~serve_from_cache(config, cache, now)
  /\ LET a == metrics_cache_append(config, metrics_cache_invalidate(cache), header_cached(now))
     IN /\ cache' = a.cache
        /\ overflowed' = [overflowed EXCEPT ![w] =
                            cache_overflows(config, metrics_cache_invalidate(cache), header_cached(now))]
  /\ path' = [path EXCEPT ![w] = "miss"]
  /\ \E outcome \in {"ok", "write_failed", "no_bridge"} :
       /\ Fault(outcome # "ok")
       /\ sent' = [sent EXCEPT ![w] = IF outcome = "write_failed" THEN @ ELSE @ \o header_sent(now)]
       /\ wfail' = [wfail EXCEPT ![w] = (outcome = "write_failed")]
       /\ config' = IF outcome = "write_failed" THEN config
                    ELSE pgexporter_open_connections(config, backend)
       /\ bridge' = [bridge EXCEPT ![w] =
                       IF outcome = "ok" THEN [ptr |-> "live", metrics |-> <<>>, destroyed |-> 0]
                       ELSE @]
       /\ pc' = [pc EXCEPT ![w] = IF outcome = "ok" THEN "collect" ELSE "error"]
  /\ UNCHANGED <<backend, lock, now, start_time, iter, reset_pc, holds, ran, blocks>>
  /\ UNCHANGED <<arg, result>>

\* the collector calls, then pgexporter_art_iterator_create
Collect(w) ==
  /\ pc[w] = "collect"
  /\ LET r == run_collectors(1, config, backend, bridge[w].metrics, <<>>)
     IN /\ config' = r.cfg
        /\ ran' = [ran EXCEPT ![w] = r.ran]
        /\ \E ok \in BOOLEAN :
             /\ Fault(~ok)
             /\ pc' = [pc EXCEPT ![w] = IF ok THEN "serialize" ELSE "error"]
             /\ bridge' = [bridge EXCEPT ![w] =
                             IF ok THEN [@ EXCEPT !.metrics = r.metrics]
                             ELSE error_bridge([@ EXCEPT !.metrics = r.metrics])]
             /\ iter' = [iter EXCEPT ![w] = IF ok THEN art_iterator(r.metrics) ELSE @]
  /\ UNCHANGED <<backend, cache, lock, now, start_time, sent, reset_pc,
                 holds, path, overflowed, wfail, blocks>>
  /\ UNCHANGED <<arg, result>>

\* one round of the while loop over the metrics: build, cache and send a chunk
Serialize(w) ==
  /\ pc[w] = "serialize"
  /\ iter[w] # <<>>
  /\ LET data == metric_text(art_search(bridge[w].metrics, Head(iter[w])))
         a == metrics_cache_append(config, cache, data)
     IN \E outcome \in {"ok", "write_failed", "no_iterator"} :
          /\ Fault(outcome # "ok")
          /\ IF outcome = "no_iterator"
             THEN /\ pc' = [pc EXCEPT ![w] = "error"]
                  /\ bridge' = [bridge EXCEPT ![w] = error_bridge(@)]
                  /\ UNCHANGED <<cache, overflowed, sent, wfail, iter, blocks>>
             ELSE /\ cache' = a.cache
                  /\ overflowed' = [overflowed EXCEPT ![w] = @ \/ cache_overflows(config, cache, data)]
                  /\ sent' = [sent EXCEPT ![w] = IF outcome = "ok" THEN @ \o send_chunk_text(data) ELSE @]
                  /\ wfail' = [wfail EXCEPT ![w] = @ \/ outcome = "write_failed"]
                  /\ iter' = [iter EXCEPT ![w] = Tail(@)]
                  /\ blocks' = [blocks EXCEPT ![w] = Append(@, Head(iter[w]))]
                  /\ UNCHANGED <<pc, bridge>>
  /\ UNCHANGED <<config, backend, lock, now, start_time, reset_pc, holds, path, ran>>
  /\ UNCHANGED <<arg, result>>

\* after the loop: destroy the bridge, close the connections, write the footer
\* and finalize the cache
Finish(w) ==
  /\ pc[w] = "serialize"
  /\ iter[w] = <<>>
  /\ config' = pgexporter_close_connections(config)
  /\ \E ok \in BOOLEAN :
       /\ Fault(~ok)
       /\ bridge' = [bridge EXCEPT ![w] = IF ok THEN error_bridge(@) ELSE error_bridge(error_bridge(@))]
       /\ sent' = [sent EXCEPT ![w] = IF ok THEN @ \o footer_text ELSE @]
       /\ wfail' = [wfail EXCEPT ![w] = @ \/ ~ok]
       /\ cache' = IF ok THEN metrics_cache_finalize(config, cache, now).cache ELSE cache
       /\ pc' = [pc EXCEPT ![w] = IF ok THEN "unlock" ELSE "error"]
  /\ UNCHANGED <<backend, lock, now, start_time, iter, reset_pc, holds, path,
                 overflowed, ran, blocks>>
  /\ UNCHANGED <<arg, result>>

\* atomic_store(&cache->lock, STATE_FREE) and return 0
Unlock(w) ==
  /\ pc[w] = "unlock"
  /\ lock' = STATE_FREE
  /\ holds' = holds \ {w}
  /\ pc' = [pc EXCEPT ![w] = "done"]
  /\ UNCHANGED <<config, backend, cache, now, budget, start_time, sent, bridge, iter,
                 reset_pc, path, overflowed, wfail, ran, blocks>>
  /\ UNCHANGED <<arg, result>>

(***************************************************************************)
(* pgexporter_prometheus_reset                                             *)
(***************************************************************************)
ResetAcquire ==
  /\ reset_pc = "lock"
  /\ cas_succeeds(lock)
  /\ lock' = STATE_IN_USE
  /\ reset_pc' = "locked"
  /\ holds' = holds \cup {RESET}
  /\ UNCHANGED <<config, backend, cache, now, budget, pc, start_time, sent, bridge, iter, path, overflowed, wfail, ran, blocks>>
  /\ UNCHANGED <<arg, result>>

\* SLEEP_AND_GOTO(1000000L, retry_cache_locking)
ResetBusy ==
  /\ reset_pc = "lock"
  /\ ~cas_succeeds(lock)
  /\ reset_pc' = "sleep"
  /\ UNCHANGED <<config, backend, cache, lock, now, budget, pc, start_time, sent, bridge,
                 iter, holds, path, overflowed, wfail, ran, blocks>>
  /\ UNCHANGED <<arg, result>>

ResetWake ==
  /\ reset_pc = "sleep"
  /\ reset_pc' = "lock"
  /\ UNCHANGED <<config, backend, cache, lock, now, budget, pc, start_time, sent, bridge,
                 iter, holds, path, overflowed, wfail, ran, blocks>>
  /\ UNCHANGED <<arg, result>>

\* the body under the lock: invalidate, zero the logging counters, release
ResetBody ==
  /\ reset_pc = "locked"
  /\ cache' = metrics_cache_invalidate(cache)
  /\ config' = [config EXCEPT !.logging_info = 0, !.logging_warn = 0,
                              !.logging_error = 0, !.logging_fatal = 0]
  /\ lock' = STATE_FREE
  /\ holds' = holds \ {RESET}
  /\ reset_pc' = "done"
  /\ UNCHANGED <<backend, now, budget, pc, start_time, sent, bridge, iter, path,
                 overflowed, wfail, ran, blocks>>
  /\ UNCHANGED <<arg, result>>

(***************************************************************************)
(* Environment                                                             *)
(***************************************************************************)
Tick ==
  /\ budget > 0
  /\ budget' = budget - 1
  /\ \E d \in TickSteps : now' = now + d
  /\ UNCHANGED <<config, backend, cache, lock, pc, start_time, sent, bridge, iter,
                 reset_pc, holds, path, overflowed, wfail, ran, blocks>>
  /\ UNCHANGED <<arg, result>>

LoggingLevels == {"logging_info", "logging_warn", "logging_error", "logging_fatal"}

\* pgexporter_prometheus_logging(type)
pgexporter_prometheus_logging ==
  /\ budget > 0
  /\ budget' = budget - 1
  /\ \E type \in LoggingLevels : config' = [config EXCEPT ![type] = @ + 1]
  /\ UNCHANGED <<backend, cache, lock, now, pc, start_time, sent, bridge, iter,
                 reset_pc, holds, path, overflowed, wfail, ran, blocks>>
  /\ UNCHANGED <<arg, result>>

(***************************************************************************)
(* Configurations and backends the behaviours start from                   *)
(***************************************************************************)
Server(n, st, d, w) ==
  [name |-> n, fd |-> -1, state |-> st, extension |-> TRUE, data |-> d, wal |-> w]

Configuration(port, max_age, max_size, timeout, cs, proms, srvs) ==
  [metrics |-> port, metrics_cache_max_age |-> max_age, metrics_cache_max_size |-> max_size,
   blocking_timeout |-> timeout, collectors |-> cs, prometheus |-> proms, servers |-> srvs,
   logging_info |-> 0, logging_warn |-> 0, logging_error |-> 0, logging_fatal |-> 0]

\* what one server answers: NULL_QUERY is a failed query
Backend(u, v, ut, pr, st, fn, ex, cu) ==
  [up |-> u, version |-> v, uptime |-> ut, primary |-> pr, settings |-> st,
   functions |-> fn, exec |-> ex, custom |-> cu]

NoCustom == [tag \in {} |-> [error |-> FALSE, query |-> NULL_QUERY]]
NoExec == [name \in {} |-> NULL_QUERY]

\* cache settings of the concurrency specification: (max_age, max_size, blocking_timeout);
\* 200 bytes hold the header or one chunk of a scrape, but not both
CacheSettings == {<<1, 0, 1>>, <<1, 200, 0>>, <<0, 0, 1>>}

\* the one server of the concurrency specification answers the version query only
SmallBackend ==
  <<Backend(TRUE, Query("version", <<"version", "minor_version">>, <<Tuple(1, <<"15", "4">>)>>),
            NULL_QUERY, NULL_QUERY, NULL_QUERY, NULL_QUERY, NoExec, NoCustom)>>

\* no function call is under study, or the call has not returned
NoResult == [returned |-> FALSE]
Returned(v) == [returned |-> TRUE, value |-> v]

\* the state right after pgexporter_init_prometheus_cache, before any request
InitProcesses ==
  /\ cache = init_prometheus_cache(config)
  /\ lock = STATE_FREE
  /\ now = 1
  /\ pc = [w \in Workers |-> "idle"]
  /\ start_time = [w \in Workers |-> 0]
  /\ sent = [w \in Workers |-> ""]
  /\ bridge = [w \in Workers |-> NULL_BRIDGE]
  /\ iter = [w \in Workers |-> <<>>]
  /\ reset_pc = "lock"
  /\ holds = {}
  /\ path = [w \in Workers |-> "none"]
  /\ overflowed = [w \in Workers |-> FALSE]
  /\ wfail = [w \in Workers |-> FALSE]
  /\ ran = [w \in Workers |-> <<>>]
  /\ blocks = [w \in Workers |-> <<>>]

Init ==
  /\ \E cs \in CacheSettings :
       config = Configuration(5002, cs[1], cs[2], cs[3], <<>>, <<>>,
                              <<Server("s1", SERVER_PRIMARY, "", "")>>)
  /\ backend = SmallBackend
  /\ budget = MaxEvents
  /\ InitProcesses
  /\ arg = <<>>
  /\ result = NoResult

Next ==
  \/ \E w \in Workers : Request(w)
  \/ \E w \in Workers : LockAcquire(w)
  \/ \E w \in Workers : LockBusy(w)
  \/ \E w \in Workers : Wake(w)
  \/ \E w \in Workers : CacheHit(w)
  \/ \E w \in Workers : CacheMiss(w)
  \/ \E w \in Workers : Collect(w)
  \/ \E w \in Workers : Serialize(w)
  \/ \E w \in Workers : Finish(w)
  \/ \E w \in Workers : Unlock(w)
  \/ ResetAcquire
  \/ ResetBusy
  \/ ResetWake
  \/ ResetBody
  \/ Tick

Spec == Init /\ [][Next]_vars

(***************************************************************************)
(* Collector specification: one fault-free scrape over two servers whose   *)
(* answers range over the profiles below                                   *)
(***************************************************************************)
VersionQuery(s) ==
  Query("pg_version", <<"version", "minor_version">>, <<Tuple(s, <<"15", "4">>)>>)

UptimeQuery(s) == Query("pg_uptime", <<"uptime">>, <<Tuple(s, <<"100">>)>>)

PrimaryQuery(s) == Query("pg_primary", <<"primary">>, <<Tuple(s, <<IF s = 1 THEN "t" ELSE "f">>)>>)

SettingTuple(s, name) ==
  IF name = "fsync" THEN Tuple(s, <<"fsync", "on", "Forces synchronization">>)
  ELSE Tuple(s, <<"work_mem", IF s = 1 THEN "4096" ELSE "8192", "Sets the working memory">>)

\* answers of pg_settings, ordered by name as the query orders them
SettingsQuery(s, names) ==
  Query("pg_settings", <<"name", "setting", "short_desc">>,
        [k \in 1..Len(names) |-> SettingTuple(s, names[k])])

FunctionsQuery(s) ==
  Query("pgexporter_ext", <<"name", "has_input", "description", "type">>,
        <<Tuple(s, <<"pgexporter_get_functions", "f", "Functions", "gauge">>),
          Tuple(s, <<"pgexporter_is_supported", "t", "Supported", "gauge">>),
          Tuple(s, <<"pgexporter_ext_version", "f", "Extension version", "gauge">>),
          Tuple(s, <<"pgexporter_used_space", "t", "Used space", "gauge">>)>>)

ExecAnswers(s) ==
  [name \in {"pgexporter_ext_version", "pgexporter_used_space_data", "pgexporter_used_space_wal"} |->
     IF name = "pgexporter_ext_version"
     THEN Query("pgexporter_ext", <<"version">>, <<Tuple(s, <<"0.2">>)>>)
     ELSE Query("pgexporter_ext", <<"used">>, <<Tuple(s, <<"1024">>)>>)]

DatabaseQuery(s, dbs) ==
  Query("pg_db", <<"database", "size">>,
        [k \in 1..Len(dbs) |-> Tuple(s, <<dbs[k], IF s = 1 THEN "7" ELSE "9.5">>)])

LatencyQuery(s) ==
  Query("pg_lat", <<"app", "lat", "lat_bucket", "lat_sum", "lat_count">>,
        <<Tuple(s, <<"web", "{0.1,0.5,1}", "{2,5,7}", "3.14", "9">>)>>)

\* a latency answer whose label cell holds a quote
QuotedLatencyQuery(s) ==
  Query("pg_lat", <<"app", "lat", "lat_bucket", "lat_sum", "lat_count">>,
        <<Tuple(s, <<"w\"eb", "{0.1}", "{2}", "0.5", "3">>)>>)

CustomAnswers(db, lat) == [tag \in {"pg_db", "pg_lat"} |-> IF tag = "pg_db" THEN db ELSE lat]

Answer(q) == [error |-> FALSE, query |-> q]
Failure == [error |-> TRUE, query |-> NULL_QUERY]

ServerProfiles == {"down", "full", "partial", "bare", "failing", "quoted"}

\* what server s answers under a profile
ProfileBackend(profile, s) ==
  CASE profile = "down" ->
         Backend(FALSE, VersionQuery(s), UptimeQuery(s), PrimaryQuery(s),
                 SettingsQuery(s, <<"fsync", "work_mem">>), FunctionsQuery(s), ExecAnswers(s),
                 CustomAnswers(Answer(DatabaseQuery(s, <<"app">>)), Answer(LatencyQuery(s))))
    [] profile = "full" ->
         Backend(TRUE, VersionQuery(s), UptimeQuery(s), PrimaryQuery(s),
                 SettingsQuery(s, <<"fsync", "work_mem">>), FunctionsQuery(s), ExecAnswers(s),
                 CustomAnswers(Answer(DatabaseQuery(s, <<"app">>)), Answer(LatencyQuery(s))))
    [] profile = "partial" ->
         Backend(TRUE, VersionQuery(s), NULL_QUERY, PrimaryQuery(s),
                 SettingsQuery(s, <<"work_mem">>), NULL_QUERY, NoExec,
                 CustomAnswers(Answer(DatabaseQuery(s, <<"app", "web">>)), Failure))
    [] profile = "bare" ->
         Backend(TRUE, NULL_QUERY, UptimeQuery(s), NULL_QUERY,
                 SettingsQuery(s, <<"fsync">>), FunctionsQuery(s), NoExec,
                 CustomAnswers(Answer(DatabaseQuery(s, <<>>)), Answer(LatencyQuery(s))))
    [] profile = "failing" ->
         Backend(TRUE, NULL_QUERY, NULL_QUERY, NULL_QUERY, NULL_QUERY, NULL_QUERY, NoExec,
                 CustomAnswers(Failure, Failure))
    [] profile = "quoted" ->
         Backend(TRUE, VersionQuery(s), NULL_QUERY, NULL_QUERY, NULL_QUERY, NULL_QUERY, NoExec,
                 CustomAnswers(Answer(DatabaseQuery(s, <<"a\"b">>)), Answer(QuotedLatencyQuery(s))))

DatabaseAlt ==
  QueryAlt(FALSE, <<Column("database", LABEL_TYPE, ""), Column("size", GAUGE_TYPE, "Database size")>>)

LatencyAlt ==
  QueryAlt(TRUE, <<Column("app", LABEL_TYPE, ""), Column("lat", HISTOGRAM_TYPE, "Query latency")>>)

Prometheus(t, c, sort, sqt, r) ==
  [tag |-> t, collector |-> c, sort_type |-> sort, server_query_type |-> sqt, root |-> r]

CustomMetrics ==
  <<Prometheus("pg_db", "db", SORT_NAME, SERVER_QUERY_BOTH, <<DatabaseAlt, DatabaseAlt>>),
    Prometheus("pg_lat", "lat", SORT_NAME, SERVER_QUERY_BOTH, <<LatencyAlt, LatencyAlt>>)>>

\* allow-lists of collectors: empty (everything passes) or a selection
AllowLists == {<<>>, <<"settings", "lat">>}

TwoServers ==
  <<Server("s1", SERVER_PRIMARY, "/pgdata", ""), Server("s2", SERVER_REPLICA, "", "/pgwal")>>

InitCollect ==
  /\ \E allow \in AllowLists :
       config = Configuration(5002, 1, 0, 1, allow, CustomMetrics, TwoServers)
  /\ \E p1 \in ServerProfiles, p2 \in ServerProfiles :
       backend = <<ProfileBackend(p1, 1), ProfileBackend(p2, 2)>>
  /\ budget = 0
  /\ InitProcesses
  /\ arg = <<>>
  /\ result = NoResult

NextCollect ==
  \/ Request(1)
  \/ LockAcquire(1)
  \/ CacheMiss(1)
  \/ Collect(1)
  \/ Serialize(1)
  \/ Finish(1)
  \/ Unlock(1)

SpecCollect == InitCollect /\ [][NextCollect]_vars

(***************************************************************************)
(* Properties of the cache lock and the cache (specification Spec)         *)
(***************************************************************************)
\* process p takes the step
ActorStep(p) ==
  IF p = RESET THEN reset_pc' # reset_pc
  ELSE pc'[p] # pc[p] \/ iter'[p] # iter[p]

\* C1: at most one process at a time is between a successful CAS of the cache
\* lock and its release, the lock word is IN_USE meanwhile, and every step that
\* changes the cache body or valid_until is taken by the process holding the lock
C1_CacheMutatedUnderLock ==
  /\ [](Cardinality(holds) <= 1 /\ (holds # {} => lock = STATE_IN_USE))
  /\ [][cache' # cache => \E p \in holds : ActorStep(p)]_vars

\* a worker has filled the cache under the lock while the other worker, having
\* failed its CAS, sleeps
C1_Witness ==
  /\ holds = {1}
  /\ pc[1] = "serialize"
  /\ Len(cache.data) > 0
  /\ pc[2] = "sleep"

\* C2: when an append of a cache-miss scrape has overflowed, the cache is
\* invalid (valid_until = 0) when the scrape has ended and before the lock is
\* released
C2_OverflowLeavesCacheInvalid ==
  \A w \in Workers :
    (path[w] = "miss" /\ overflowed[w] /\ pc[w] = "unlock") => cache.valid_until = 0

\* C3: a worker served from the cache that a complete scrape without overflow
\* left has written the same bytes as the worker of that scrape
C3_CacheHitSameBytes ==
  \A w1 \in Workers, w2 \in Workers :
    ( /\ path[w1] = "miss" /\ pc[w1] = "done" /\ ~overflowed[w1] /\ ~wfail[w1]
      /\ path[w2] = "hit" /\ pc[w2] \in {"unlock", "done"} )
    => sent[w2] = sent[w1]

\* C4: after a failed write to the client of a cache-miss scrape the worker is
\* on the error path, where it writes nothing further, and the cache it holds
\* is invalid
C4_WriteFailureAborts ==
  \A w \in Workers :
    (path[w] = "miss" /\ wfail[w]) =>
       (pc[w] = "error" /\ (w \in holds => cache.valid_until = 0))

\* the first n characters of s
Prefix(s, n) == SubSeq(s, 1, Min(n, Len(s)))

\* C5: a worker that gave up waiting for the lock has answered with a 500 response
C5_TimeoutAnswers500 ==
  \A w \in Workers : path[w] = "timeout" => Prefix(sent[w], 12) = "HTTP/1.1 500"

\* C6: a worker that has the lock is served from the cache exactly when the
\* cache is configured, its body is not empty and valid_until > now
C6_HitIffStrictlyInFuture ==
  [][\A w \in Workers :
       (pc[w] = "locked" /\ pc'[w] # "locked") =>
          (path'[w] = "hit" <=>
             ( /\ is_metrics_cache_configured(config)
               /\ Len(cache.data) > 0
               /\ cache.valid_until > now ))]_vars

(***************************************************************************)
(* Properties of the collectors and the registry (specification            *)
(* SpecCollect)                                                            *)
(***************************************************************************)
\* the last n characters of s
Suffix(s, n) == SubSeq(s, Len(s) - Min(n, Len(s)) + 1, Len(s))

\* the position of name in the sequence of names, 0 when absent
Position(names, name) ==
  IF \E k \in 1..Len(names) : names[k] = name
  THEN CHOOSE k \in 1..Len(names) : names[k] = name
  ELSE 0

\* the definitions of the metric stored under name, none when it is absent
Series(metrics, name) ==
  IF art_contains(metrics, name) THEN art_search(metrics, name).definitions ELSE <<>>

\* the series of a family that carry the label server = the name of server s
SeriesOfServer(cfg, defs, s) ==
  {k \in 1..Len(defs) :
     \E j \in 1..Len(defs[k].attributes) :
        defs[k].attributes[j] = Attr("server", cfg.servers[s].name)}

\* C7: whatever servers are disconnected or fail their queries, a cache-miss
\* scrape never takes the error path, has run every collector when it
\* serializes, holds exactly one pgexporter_postgresql_active series per
\* configured server, valued 1 for a connected server and 0 otherwise, and
\* has sent every block and then the terminating chunk when it ends
C7_ScrapeSurvivesBackendFailures ==
  \A w \in Workers :
    /\ pc[w] # "error"
    /\ pc[w] = "serialize" =>
         /\ ran[w] = CollectorOrder
         /\ LET defs == Series(bridge[w].metrics, "pgexporter_postgresql_active")
            IN /\ Len(defs) = Len(config.servers)
               /\ \A s \in 1..Len(config.servers) :
                    /\ Cardinality(SeriesOfServer(config, defs, s)) = 1
                    /\ \A k \in SeriesOfServer(config, defs, s) :
                         defs[k].values = <<IF config.servers[s].fd # -1 THEN "1" ELSE "0">>
    /\ (path[w] = "miss" /\ pc[w] \in {"unlock", "done"}) =>
         /\ Position(blocks[w], "pgexporter_postgresql_active") > 0
         /\ Suffix(sent[w], Len(footer_text)) = footer_text

\* a scrape has ended with the first server disconnected and the second
\* failing every query
C7_Witness ==
  /\ pc[1] = "done"
  /\ path[1] = "miss"
  /\ backend = <<ProfileBackend("down", 1), ProfileBackend("failing", 2)>>

\* the name of the family of a setting
SettingFamily(t) == "pgexporter_pg_settings_" \o safe_prometheus_key(get_column(0, t))

\* C8: when the registry is serialized, every tuple that the settings query of
\* a connected server returned has exactly one series labelled with that
\* server in the family of its setting, valued get_value of the setting
C8_EverySettingTupleOneSeries ==
  \A w \in Workers :
    (pc[w] = "serialize" /\ collector_pass(config, "settings")) =>
      \A s \in 1..Len(config.servers) :
        (config.servers[s].fd # -1 /\ ~backend[s].settings.isnull) =>
          \A i \in 1..Len(backend[s].settings.tuples) :
            LET t == backend[s].settings.tuples[i]
                defs == Series(bridge[w].metrics, SettingFamily(t))
            IN /\ Cardinality(SeriesOfServer(config, defs, s)) = 1
               /\ \A k \in SeriesOfServer(config, defs, s) :
                    defs[k].values = <<get_value("pg_settings", get_column(0, t), get_column(1, t))>>

\* the servers whose answer to the query of custom metric prom had tuples
Answering(cfg, be, prom) ==
  {s \in 1..Len(cfg.servers) :
     /\ custom_query_sent(cfg, prom, s)
     /\ ~pgexporter_custom_query(be, s, prom.tag).error
     /\ pgexporter_custom_query(be, s, prom.tag).query.tuples # <<>>}

\* the names of the families of custom metric prom as server s defines it
CustomFamilies(prom, s) ==
  LET alt == pgexporter_get_query_alt(prom, s)
  IN IF alt.is_histogram
     THEN {"pgexporter_" \o prom.tag \o sfx : sfx \in {"_bucket", "_sum", "_count"}}
     ELSE {gauge_counter_name([tag |-> prom.tag, query_alt |-> alt], i) :
             i \in {j \in 1..Len(alt.columns) : alt.columns[j].type # LABEL_TYPE}}

\* C9: when the registry is serialized, each family of a custom metric that
\* several servers answered with tuples holds series of every one of them
C9_CustomFamilyHoldsEveryServer ==
  \A w \in Workers :
    pc[w] = "serialize" =>
      \A i \in 1..Len(config.prometheus) :
        LET prom == config.prometheus[i]
            from == Answering(config, backend, prom)
        IN (collector_pass(config, prom.collector) /\ Cardinality(from) >= 2) =>
             \A s \in from : \A name \in CustomFamilies(prom, s) :
                SeriesOfServer(config, Series(bridge[w].metrics, name), s) # {}

\* C10: the blocks of a histogram metric were serialized in the order _bucket,
\* _sum, _count
C10_HistogramBlockOrder ==
  \A w \in Workers :
    (path[w] = "miss" /\ pc[w] = "unlock") =>
      \A i \in 1..Len(config.prometheus) :
        LET tag == "pgexporter_" \o config.prometheus[i].tag
            b == Position(blocks[w], tag \o "_bucket")
            m == Position(blocks[w], tag \o "_sum")
            c == Position(blocks[w], tag \o "_count")
        IN (b > 0 /\ m > 0 /\ c > 0) => (b < m /\ m < c)

(***************************************************************************)
(* Specification of one handle_histogram call on well-formed tuples        *)
(***************************************************************************)
\* most finite buckets of a histogram tuple
MaxBuckets == 3

\* the text of a PostgreSQL array: {c1,c2,...,cn}
RECURSIVE JoinComma(_, _)
JoinComma(items, i) ==
  IF i > Len(items) THEN ""
  ELSE items[i] \o (IF i < Len(items) THEN "," ELSE "") \o JoinComma(items, i + 1)

ArrayText(items) == "{" \o JoinComma(items, 1) \o "}"

\* a histogram with n finite buckets observed on server s: bounds, cumulative
\* counts, sum and count
Histogram(s, n) ==
  [server |-> s,
   b |-> [i \in 1..n |-> ToString(i) \o ".5"],
   c |-> [i \in 1..n |-> ToString(2 * i + s)],
   sum |-> ToString(s) \o ".25",
   count |-> ToString(2 * n + s + 1)]

Histograms == {Histogram(s, n) : s \in 1..2, n \in 0..MaxBuckets}

\* the tuple the pg_lat query returns for a histogram
HistogramTuple(h) ==
  Tuple(h.server, <<"web", ArrayText(h.b), ArrayText(h.c), h.sum, h.count>>)

\* the query node custom_metrics hands to handle_histogram for these histograms
HistogramNode(hs) ==
  QueryNode(CustomMetrics[2], LatencyAlt,
            Answer(Query("pg_lat", <<"app", "lat", "lat_bucket", "lat_sum", "lat_count">>,
                         [k \in 1..Len(hs) |-> HistogramTuple(hs[k])])))

InitHistogram ==
  /\ config = Configuration(5002, 1, 0, 1, <<>>, CustomMetrics, TwoServers)
  /\ backend = <<ProfileBackend("full", 1), ProfileBackend("full", 2)>>
  /\ budget = 0
  /\ InitProcesses
  /\ \E h1 \in Histograms :
       \/ arg = <<h1>>
       \/ \E h2 \in Histograms : arg = <<h1, h2>>
  /\ result = NoResult

\* handle_histogram(bridge, temp) on an empty bridge
CallHistogram ==
  /\ ~result.returned
  /\ result' = Returned(handle_histogram(config, <<>>, HistogramNode(arg)))
  /\ UNCHANGED <<arg, process_vars>>

SpecHistogram == InitHistogram /\ [][CallHistogram]_vars

\* a series carries the label key = value
HasLabel(d, key, value) ==
  \E j \in 1..Len(d.attributes) : d.attributes[j] = Attr(key, value)

\* the number of bucket series the histograms before the k-th one have
RECURSIVE BucketsBefore(_, _)
BucketsBefore(hs, k) ==
  IF k = 1 THEN 0 ELSE BucketsBefore(hs, k - 1) + Len(hs[k - 1].b) + 1

\* C11: for each histogram tuple, in tuple order, the bucket family holds one
\* series per bound with le = b[i] and value c[i] in index order, then a series
\* with le = "+Inf" valued count; the sum family holds a series valued sum and
\* the count family a series valued count; each carries the label of the
\* tuple's server, and the families hold nothing else
C11_HistogramSeries ==
  result.returned =>
    LET bucket == Series(result.value, "pgexporter_pg_lat_bucket")
        sum == Series(result.value, "pgexporter_pg_lat_sum")
        count == Series(result.value, "pgexporter_pg_lat_count")
    IN /\ Len(bucket) = BucketsBefore(arg, Len(arg) + 1)
       /\ Len(sum) = Len(arg)
       /\ Len(count) = Len(arg)
       /\ \A k \in 1..Len(arg) :
            LET h == arg[k]
                srv == config.servers[h.server].name
                at == BucketsBefore(arg, k)
                n == Len(h.b)
            IN /\ \A i \in 1..n :
                    /\ HasLabel(bucket[at + i], "le", h.b[i])
                    /\ HasLabel(bucket[at + i], "server", srv)
                    /\ bucket[at + i].values = <<h.c[i]>>
               /\ HasLabel(bucket[at + n + 1], "le", "+Inf")
               /\ HasLabel(bucket[at + n + 1], "server", srv)
               /\ bucket[at + n + 1].values = <<h.count>>
               /\ HasLabel(sum[k], "server", srv)
               /\ sum[k].values = <<h.sum>>
               /\ HasLabel(count[k], "server", srv)
               /\ count[k].values = <<h.count>>

\* the call has returned for a tuple of server 1 with the most buckets followed
\* by a tuple of server 2 with fewer
C11_Witness ==
  /\ result.returned
  /\ arg = <<Histogram(1, MaxBuckets), Histogram(2, 1)>>
  /\ Len(Series(result.value, "pgexporter_pg_lat_bucket")) = MaxBuckets + 3

(***************************************************************************)
(* Request routing: resolve_page and pgexporter_prometheus                 *)
(***************************************************************************)
PAGE_UNKNOWN == 0
PAGE_HOME == 1
PAGE_METRICS == 2
BAD_REQUEST == 3

\* resolve_page left the message while looking for the space that ends the path
CRASHED == -1

\* the index of the first ' ' at or after index, -1 when the message holds none
RECURSIVE find_space(_, _)
find_space(data, index) ==
  IF index >= Len(data) THEN -1
  ELSE IF CharAt(data, index) = " " THEN index
  ELSE find_space(data, index + 1)

\* known is a prefix of s
starts_with(s, known) == Len(known) <= Len(s) /\ SubSeq(s, 1, Len(known)) = known

\* The pages resolve_page(msg) can return for the bytes data of the message.
\* When no space ends the path inside the message, the loop reads what lies
\* behind it: the path is the known bytes followed by unknown ones, or the
\* process crashes.
resolve_page(data) ==
  IF Len(data) < 3 \/ SubSeq(data, 1, 3) # "GET" THEN {BAD_REQUEST}
  ELSE LET end == find_space(data, 4)
           from == SubSeq(data, 5, IF end = -1 THEN Len(data) ELSE end)
       IN IF end # -1
          THEN IF from = "/" \/ from = "/index.html" THEN {PAGE_HOME}
               ELSE IF from = "/metrics" THEN {PAGE_METRICS}
               ELSE {PAGE_UNKNOWN}
          ELSE {CRASHED, PAGE_UNKNOWN}
               \cup (IF starts_with("/", from) \/ starts_with("/index.html", from)
                     THEN {PAGE_HOME} ELSE {})
               \cup (IF starts_with("/metrics", from) THEN {PAGE_METRICS} ELSE {})

\* what badrequest_page and bad_request write
bad_request(t) == "HTTP/1.1 400 Bad Request\r\n" \o "Date: " \o time_buf(t) \o "\r\n"

\* what unknown_page writes
unknown_page(t) == "HTTP/1.1 403 Forbidden\r\n" \o "Date: " \o time_buf(t) \o "\r\n"

\* the header home_page writes before its chunks
home_page(t) ==
  "HTTP/1.1 200 OK\r\n"
  \o "Content-Type: text/html; charset=utf-8\r\n"
  \o "Date: " \o time_buf(t) \o "\r\n"
  \o "Transfer-Encoding: chunked\r\n"
  \o "\r\n"

\* The handler pgexporter_prometheus calls for a page, the first message that
\* handler writes, the handler's return value (which pgexporter_prometheus
\* drops) and the exit status of the worker.
Response(called, head, status, exit) ==
  [called |-> called, head |-> head, status |-> status, exit |-> exit]

serve_page(page, t, write_ok) ==
  LET status == IF write_ok THEN 0 ELSE 1
      written(head) == IF write_ok THEN head ELSE ""
  IN IF page = CRASHED THEN Response("", "", 1, -1)
     ELSE IF page = PAGE_HOME
     THEN Response("home_page", written(home_page(t)), status, 0)
     ELSE IF page = PAGE_METRICS
     THEN Response("metrics_page", written(header_sent(t)), status, 0)
     ELSE IF page = PAGE_UNKNOWN
     THEN Response("unknown_page", written(unknown_page(t)), status, 0)
     ELSE Response("bad_request", written(bad_request(t)), status, 0)

\* pgexporter_prometheus(client_fd) for a request in arg: whether it could be
\* read, its bytes, and whether writes to the client succeed
pgexporter_prometheus ==
  /\ ~result.returned
  /\ IF ~arg.status_ok
     THEN result' = Returned(Response("badrequest_page",
                                      IF arg.write_ok THEN bad_request(now) ELSE "",
                                      IF arg.write_ok THEN 0 ELSE 1, 1))
     ELSE \E page \in resolve_page(arg.data) :
            result' = Returned(serve_page(page, now, arg.write_ok))
  /\ UNCHANGED <<arg, process_vars>>

Methods == {"GET", "PUT", "POST", "HEAD", "GETX", "get", "GE"}

Paths == {"/", "/index.html", "/metrics", "/metrics/", "/nothing", ""}

RequestLine(method, request_path) == method \o " " \o request_path \o " HTTP/1.1\r\n\r\n"

\* request lines, and requests cut off before the space that ends the path
Requests ==
  {RequestLine(m, p) : m \in Methods, p \in Paths}
  \cup {"GET /metrics", "GET /", "GET", "GE"}

InitPage ==
  /\ config = Configuration(5002, 1, 0, 1, <<>>, CustomMetrics, TwoServers)
  /\ backend = <<ProfileBackend("full", 1), ProfileBackend("full", 2)>>
  /\ budget = 0
  /\ InitProcesses
  /\ arg \in [status_ok : BOOLEAN, data : Requests, write_ok : BOOLEAN]
  /\ result = NoResult

SpecPage == InitPage /\ [][pgexporter_prometheus]_vars

\* the request's bytes before its first space
Method(data) == SubSeq(data, 1, find_space(data, 0))

\* the request's bytes between its first two spaces
PathToken(data) ==
  SubSeq(data, find_space(data, 0) + 2, find_space(data, find_space(data, 0) + 1))

HasTwoSpaces(data) ==
  find_space(data, 0) # -1 /\ find_space(data, find_space(data, 0) + 1) # -1

\* C12: of a request that holds a method and a path, the worker answers 400
\* when it cannot be read or its method is not GET, and otherwise answers "/"
\* and "/index.html" with the index, "/metrics" with the scrape and any other
\* path with 403
C12_RequestRouting ==
  (result.returned /\ HasTwoSpaces(arg.data)) =>
    LET called == result.value.called
        head == result.value.head
    IN /\ arg.write_ok =>
            Prefix(head, 12) = (IF called \in {"bad_request", "badrequest_page"}
                                THEN "HTTP/1.1 400"
                                ELSE IF called = "unknown_page" THEN "HTTP/1.1 403"
                                ELSE "HTTP/1.1 200")
       /\ IF ~arg.status_ok THEN called = "badrequest_page"
          ELSE IF Method(arg.data) # "GET" THEN called = "bad_request"
          ELSE IF PathToken(arg.data) \in {"/", "/index.html"} THEN called = "home_page"
          ELSE IF PathToken(arg.data) = "/metrics" THEN called = "metrics_page"
          ELSE called = "unknown_page"

(***************************************************************************)
(* Properties of the cache-hit and cache-miss paths of metrics_page        *)
(* (specification Spec)                                                    *)
(***************************************************************************)
\* C13: a worker is served from the cache only when the cache holds a body that
\* has not expired; the step writes exactly that body to the client (nothing
\* when the write fails), opens no backend connection, runs no collector,
\* builds no registry, and leaves the cache body and valid_until unchanged
C13_CacheHitFrame ==
  [][\A w \in Workers :
       (pc[w] = "locked" /\ pc'[w] # "locked" /\ path'[w] = "hit") =>
          /\ Len(cache.data) > 0
          /\ now <= cache.valid_until
          /\ sent'[w] = (IF wfail'[w] THEN sent[w] ELSE sent[w] \o cache.data)
          /\ config' = config
          /\ backend' = backend
          /\ ran' = ran
          /\ bridge' = bridge
          /\ cache' = cache]_vars

\* a worker has been served the body that the scrape of the other worker left
\* in the cache, and has run no collector
C13_Witness ==
  \E w \in Workers, v \in Workers :
    /\ path[w] = "hit" /\ pc[w] = "unlock" /\ ~wfail[w]
    /\ path[v] = "miss" /\ pc[v] = "done"
    /\ sent[w] = cache.data
    /\ Len(cache.data) > 0
    /\ ran[w] = <<>>

\* the chunks of the families names of a registry, in that order: each is the
\* hexadecimal length of the family's text, CRLF, the text, CRLF
RECURSIVE Chunks(_, _)
Chunks(metrics, names) ==
  IF names = <<>> THEN ""
  ELSE LET payload == metric_text(art_search(metrics, Head(names)))
       IN Hex(Len(payload)) \o "\r\n" \o payload \o "\r\n" \o Chunks(metrics, Tail(names))

\* C14: a cache-miss scrape without a write error has written the header block,
\* then one chunk per registry family in iteration order whether or not the
\* cache took the chunk, and, once past the loop, the terminating chunk; until
\* the terminating chunk is written the cache is not final, the worker holds
\* the lock until after the finalize, and valid_until is only ever set in the
\* step that writes the terminating chunk
C14_StreamOrder ==
  /\ [](\A w \in Workers :
          (path[w] = "miss" /\ ~wfail[w] /\ pc[w] \in {"serialize", "unlock", "done"}) =>
             /\ blocks[w] \o iter[w] = art_iterator(bridge[w].metrics)
             /\ \E t \in start_time[w]..now :
                  sent[w] = header_sent(t) \o Chunks(bridge[w].metrics, blocks[w])
                            \o (IF pc[w] = "serialize" THEN "" ELSE footer_text)
             /\ pc[w] = "serialize" => cache.valid_until = 0
             /\ pc[w] # "done" => (w \in holds /\ lock = STATE_IN_USE))
  /\ [][cache'.valid_until \notin {0, cache.valid_until} =>
          \E w \in holds : /\ pc[w] = "serialize" /\ pc'[w] = "unlock"
                           /\ sent'[w] = sent[w] \o footer_text]_vars

\* a scrape whose chunks the cache refused has ended with every family written
\* and the lock released
C14_Witness ==
  \E w \in Workers :
    /\ path[w] = "miss" /\ ~wfail[w] /\ pc[w] = "done" /\ overflowed[w]
    /\ Len(blocks[w]) >= 2
    /\ lock = STATE_FREE
    /\ Suffix(sent[w], 5) = footer_text

(***************************************************************************)
(* The cache functions called in sequence (specification SpecCache)        *)
(***************************************************************************)
MaxCalls == 3

Payloads == {"a", "bb", "ccc"}

\* (metrics port, metrics_cache_max_age, metrics_cache_max_size)
CacheConfigs == {0, 5002} \X {0, 2} \X {4, 6}

\* one call of the history kept in arg: the function, its argument, the body
\* length and the time when it was called, the value it returned, and whether
\* the process died in it
Call(op, data, origin, t, ok, crashed) ==
  [op |-> op, data |-> data, origin |-> origin, t |-> t, ok |-> ok, crashed |-> crashed]

InitCache ==
  /\ \E cc \in CacheConfigs :
       config = Configuration(cc[1], cc[2], cc[3], 1, <<>>, <<>>,
                              <<Server("s1", SERVER_PRIMARY, "", "")>>)
  /\ backend = SmallBackend
  /\ budget = MaxEvents
  /\ InitProcesses
  /\ arg = <<>>
  /\ result = NoResult

CanCall == Len(arg) < MaxCalls /\ \A k \in 1..Len(arg) : ~arg[k].crashed

\* metrics_cache_invalidate(); the history starts again
CallInvalidate ==
  /\ CanCall
  /\ cache' = metrics_cache_invalidate(cache)
  /\ arg' = <<>>
  /\ result' = NoResult
  /\ UNCHANGED <<config, backend, lock, now, budget, pc, start_time, sent, bridge, iter,
                 reset_pc, holds, path, overflowed, wfail, ran, blocks>>

\* metrics_cache_append(x); a write behind the buffer either goes unnoticed or
\* ends the process
CallAppend ==
  /\ CanCall
  /\ \E x \in Payloads :
       LET a == metrics_cache_append(config, cache, x)
       IN /\ cache' = a.cache
          /\ result' = Returned(a.ok)
          /\ \E crashed \in (IF append_out_of_bounds(config, cache, x) THEN BOOLEAN ELSE {FALSE}) :
               arg' = Append(arg, Call("append", x, Len(cache.data), now, a.ok /\ ~crashed, crashed))
  /\ UNCHANGED <<config, backend, lock, now, budget, pc, start_time, sent, bridge, iter,
                 reset_pc, holds, path, overflowed, wfail, ran, blocks>>

\* metrics_cache_finalize()
CallFinalize ==
  /\ CanCall
  /\ LET f == metrics_cache_finalize(config, cache, now)
     IN /\ cache' = f.cache
        /\ result' = Returned(f.ok)
        /\ arg' = Append(arg, Call("finalize", "", Len(cache.data), now, f.ok, FALSE))
  /\ UNCHANGED <<config, backend, lock, now, budget, pc, start_time, sent, bridge, iter,
                 reset_pc, holds, path, overflowed, wfail, ran, blocks>>

NextCache == CallInvalidate \/ CallAppend \/ CallFinalize \/ Tick

SpecCache == InitCache /\ [][NextCache]_vars

\* C15: on a configured cache that was invalidated, two appends whose lengths
\* add up to less than the size both return success, and a finalize that
\* follows them leaves the body the first payload followed by the second and
\* valid_until the time of the finalize plus the maximum age
C15_AppendAppendFinalize ==
  ( /\ is_metrics_cache_configured(config)
    /\ Len(arg) >= 2
    /\ arg[1].op = "append" /\ arg[2].op = "append"
    /\ Len(arg[1].data) + Len(arg[2].data) < cache.size ) =>
       /\ arg[1].ok /\ arg[2].ok
       /\ (Len(arg) >= 3 /\ arg[3].op = "finalize") =>
             /\ cache.data = arg[1].data \o arg[2].data
             /\ cache.valid_until = arg[3].t + config.metrics_cache_max_age

C17_DisabledCacheNoOp ==
  (config.metrics = 0 \/ config.metrics_cache_max_age = PGEXPORTER_PROMETHEUS_CACHE_DISABLED) =>
     /\ \A k \in 1..Len(arg) : ~arg[k].ok
     /\ cache.data = ""
     /\ cache.valid_until = 0
     /\ ~serve_from_cache(config, cache, now)

\* on a cache disabled by the metrics port alone, an append and a finalize
\* have returned failure at a later time
C17_Witness ==
  /\ config.metrics = 0
  /\ config.metrics_cache_max_age # PGEXPORTER_PROMETHEUS_CACHE_DISABLED
  /\ Len(arg) = 2
  /\ arg[1].op = "append" /\ arg[2].op = "finalize"
  /\ result = Returned(FALSE)
  /\ now > 1

\* C18: a waiter whose CAS fails when the blocking timeout has passed since it
\* began to wait does not go to sleep for another retry: a worker began at its
\* start_time, the caller of pgexporter_prometheus_reset at the initial time 1
C18_BusyWaitBounded ==
  [][/\ \A w \in Workers :
          (pc[w] = "lock" /\ pc'[w] = "sleep") =>
             now - start_time[w] < effective_blocking_timeout(config)
     /\ (reset_pc = "lock" /\ reset_pc' = "sleep") =>
             now - 1 < effective_blocking_timeout(config)]_vars

\* C19: when the write to the client fails while the index or the scrape is
\* being served, the worker exits with status 1
C19_DroppedClientExitsOne ==
  ( /\ result.returned
    /\ result.value.called \in {"home_page", "metrics_page"}
    /\ ~arg.write_ok ) => result.value.exit = 1

(***************************************************************************)
(* Order and gating of the collectors (specification SpecCollect)          *)
(***************************************************************************)
\* the position in the sequence of collector calls of the collector that
\* creates the family name: 1..8 for the built-in collectors in the order
\* general, core, server, version, uptime, primary, settings, extension, and
\* 8 + i for the i-th custom metric of the configuration
FamilyRank(cfg, name) ==
  IF name \in {"pgexporter_state", "pgexporter_logging_info", "pgexporter_logging_warn",
               "pgexporter_logging_error", "pgexporter_logging_fatal"} THEN 1
  ELSE IF name = "pgexporter_version" THEN 2
  ELSE IF name = "pgexporter_postgresql_active" THEN 3
  ELSE IF name = "pgexporter_postgresql_version" THEN 4
  ELSE IF name = "pgexporter_postgresql_uptime" THEN 5
  ELSE IF name = "pgexporter_postgresql_primary" THEN 6
  ELSE IF starts_with(name, "pgexporter_pg_settings_") THEN 7
  ELSE IF \E i \in 1..Len(cfg.prometheus) : starts_with(name, "pgexporter_" \o cfg.prometheus[i].tag)
  THEN 8 + (CHOOSE i \in 1..Len(cfg.prometheus) :
              starts_with(name, "pgexporter_" \o cfg.prometheus[i].tag))
  ELSE 8

\* the ranks of the families of a registry
Ranks(cfg, metrics) == {FamilyRank(cfg, metrics[k].name) : k \in 1..Len(metrics)}

\* the allow-list of the configuration is empty or holds the name
Allowed(cfg, collector) ==
  Len(cfg.collectors) = 0 \/ \E k \in 1..Len(cfg.collectors) : cfg.collectors[k] = collector

\* C20: when the collectors of a cache-miss scrape have run, the families of
\* the registry were created in the order general, core, server, version,
\* uptime, primary, settings, extension, then the custom metrics in
\* configuration order; general, core and server always ran; the settings
\* collector, the extension collector and each custom metric left families
\* only if the allow-list is empty or holds their collector name, and did leave
\* them if it does and a connected server answered
C20_CollectorOrderAndGating ==
  \A w \in Workers :
    pc[w] = "serialize" =>
      LET ms == bridge[w].metrics
          ranks == Ranks(config, ms)
      IN /\ \A i \in 1..Len(ms), j \in 1..Len(ms) :
              i < j => FamilyRank(config, ms[i].name) <= FamilyRank(config, ms[j].name)
         /\ {1, 2, 3} \subseteq ranks
         /\ 7 \in ranks => Allowed(config, "settings")
         /\ 8 \in ranks => Allowed(config, "extension")
         /\ (Allowed(config, "settings")
             /\ \E s \in 1..Len(config.servers) :
                  /\ config.servers[s].fd # -1
                  /\ ~backend[s].settings.isnull
                  /\ backend[s].settings.tuples # <<>>) => 7 \in ranks
         /\ \A i \in 1..Len(config.prometheus) :
              /\ (8 + i) \in ranks => Allowed(config, config.prometheus[i].collector)
              /\ (Allowed(config, config.prometheus[i].collector)
                  /\ Answering(config, backend, config.prometheus[i]) # {}) => (8 + i) \in ranks

\* with an empty allow-list every collector has left families; with the list
\* that names settings and lat, those two have and extension and db have not
C20_Witness ==
  \E w \in Workers :
    /\ pc[w] = "serialize"
    /\ backend = <<ProfileBackend("full", 1), ProfileBackend("full", 2)>>
    /\ Ranks(config, bridge[w].metrics) = 1..10
    /\ Len(config.collectors) = 0

C20_WitnessAllowList ==
  \E w \in Workers :
    /\ pc[w] = "serialize"
    /\ backend = <<ProfileBackend("full", 1), ProfileBackend("full", 2)>>
    /\ Ranks(config, bridge[w].metrics) = (1..7) \cup {10}
    /\ config.collectors = <<"settings", "lat">>

(***************************************************************************)
(* The exposition text (specification SpecCollect)                         *)
(***************************************************************************)
\* k1="v1",k2="v2",... for the labels of a series from the i-th on
RECURSIVE ExpositionLabels(_, _)
ExpositionLabels(as, i) ==
  IF i > Len(as) THEN ""
  ELSE as[i].key \o "=\"" \o as[i].value \o "\""
       \o (IF i < Len(as) THEN "," ELSE "")
       \o ExpositionLabels(as, i + 1)

\* one line per series of a family from the i-th on
RECURSIVE ExpositionSeries(_, _, _)
ExpositionSeries(name, defs, i) ==
  IF i > Len(defs) THEN ""
  ELSE name \o "{" \o ExpositionLabels(defs[i].attributes, 1) \o "} "
       \o defs[i].values[Len(defs[i].values)] \o "\n"
       \o ExpositionSeries(name, defs, i + 1)

\* the text of one family in the exposition format
ExpositionFamily(m) ==
  "# HELP " \o m.name \o " " \o m.help \o "\n"
  \o "# TYPE " \o m.name \o " " \o m.type \o "\n"
  \o ExpositionSeries(m.name, m.definitions, 1)
  \o "\n"

\* the chunks of the families names, each family in the exposition format
RECURSIVE ExpositionChunks(_, _)
ExpositionChunks(metrics, names) ==
  IF names = <<>> THEN ""
  ELSE LET payload == ExpositionFamily(art_search(metrics, Head(names)))
       IN Hex(Len(payload)) \o "\r\n" \o payload \o "\r\n"
          \o ExpositionChunks(metrics, Tail(names))

\* C21: a scrape that has serialized its registry has written the families in
\* ascending name order, each as its "# HELP" line, its "# TYPE" line, one line
\* name{k1="v1",k2="v2"} value per series in insertion order with the labels
\* in insertion order separated by a single comma, and a blank line
C21_ExpositionFormat ==
  \A w \in Workers :
    (path[w] = "miss" /\ pc[w] = "unlock" /\ ~wfail[w]) =>
       /\ \A i \in 1..Len(blocks[w]), j \in 1..Len(blocks[w]) :
            i < j => StrLess(blocks[w][i], blocks[w][j])
       /\ \E t \in start_time[w]..now :
            sent[w] = header_sent(t) \o ExpositionChunks(bridge[w].metrics, blocks[w])
                      \o footer_text

(***************************************************************************)
(* The value coercer and the label encoder called on their own             *)
(* (specification SpecEncode)                                              *)
(***************************************************************************)
MaxKeyLen == 3

\* a cell and the rule of the coercer it falls under: 1 empty or NULL, 2 the
\* words for 0, 3 the words for 1, 4 NaN, 5 integer, 6 double, 7 anything else
Cell(val, rule) == [fn |-> "get_value", val |-> val, rule |-> rule]

Signs == {"", "+", "-"}

IntegerDigits == {"0", "7", "42", "007", "9223372036854775807"}

\* what follows the digits of a number that is a double and not an integer
DoubleTails == {".5", ".", "e3", "E-2", ".25e+1"}

\* what follows the digits of a cell that is no number at all
OtherTails == {"x", " ", ".5.", "e", "-", ",5"}

Cells ==
  {Cell(NULL_STR, 1), Cell("", 1)}
  \cup {Cell(v, 2) : v \in {"off", "f", "(disabled)"}}
  \cup {Cell(v, 3) : v \in {"on", "t"}}
  \cup {Cell("NaN", 4)}
  \cup {Cell(s \o d, 5) : s \in Signs, d \in IntegerDigits}
  \cup {Cell(v, 5) : v \in {" 12", "\t-3"}}
  \cup {Cell(s \o d \o t, 6) : s \in Signs, d \in IntegerDigits, t \in DoubleTails}
  \cup {Cell(v, 6) : v \in {".5", "-.5e2", "99999999999999999999", "inf", "-Infinity",
                            "+Inf", "nan", "0x1A", "0x1.8p1", " 1.5"}}
  \cup {Cell(s \o d \o t, 7) : s \in Signs, d \in IntegerDigits, t \in OtherTails}
  \cup {Cell(v, 7) : v \in {"abc", "true", "OFF", "On", "T", "yes", "-", "+", ".", "e3",
                            "--1", "1 2", "0x", "in", "na", "NaN1", "off "}}

\* every string of at most n characters over the alphabet
RECURSIVE Words(_, _)
Words(alphabet, n) ==
  IF n = 0 THEN {""}
  ELSE Words(alphabet, n - 1)
       \cup {w \o c : w \in {v \in Words(alphabet, n - 1) : Len(v) = n - 1}, c \in alphabet}

KeyAlphabet == {"a", ".", "\"", "\\", "\n"}

Keys == {[fn |-> "safe_prometheus_key", val |-> k] : k \in Words(KeyAlphabet, MaxKeyLen) \cup {NULL_STR}}

\* safe_prometheus_key reaches its malloc
safe_prometheus_key_allocates(key) == ~(key = NULL_STR \/ key = "")

\* safe_prometheus_key_free frees what it is given
safe_prometheus_key_free(key) == key # NULL_STR /\ Len(key) > 0

InitEncode ==
  /\ config = Configuration(5002, 1, 0, 1, <<>>, <<>>, <<Server("s1", SERVER_PRIMARY, "", "")>>)
  /\ backend = SmallBackend
  /\ budget = 0
  /\ InitProcesses
  /\ arg \in Cells \cup Keys
  /\ result = NoResult

\* get_value(tag, name, val)
CallValue ==
  /\ ~result.returned
  /\ arg.fn = "get_value"
  /\ result' = Returned(get_value("", "", arg.val))
  /\ UNCHANGED <<arg, process_vars>>

\* escaped = safe_prometheus_key(key); ...; safe_prometheus_key_free(escaped)
CallKey ==
  /\ ~result.returned
  /\ arg.fn = "safe_prometheus_key"
  /\ LET escaped == safe_prometheus_key(arg.val)
     IN result' = Returned([escaped |-> escaped,
                            allocated |-> safe_prometheus_key_allocates(arg.val),
                            freed |-> safe_prometheus_key_free(escaped)])
  /\ UNCHANGED <<arg, process_vars>>

NextEncode == CallValue \/ CallKey

SpecEncode == InitEncode /\ [][NextEncode]_vars

\* C22: get_value gives "0" for a NULL or empty cell and for "off", "f" and
\* "(disabled)", "1" for "on" and "t", "NaN" for "NaN", the cell itself for a
\* cell that is an integer or a double from its first to its last character,
\* and "1" for every other cell
C22_ValueRules ==
  (result.returned /\ arg.fn = "get_value") =>
     result.value = (CASE arg.rule \in {1, 2} -> "0"
                       [] arg.rule \in {3, 7} -> "1"
                       [] arg.rule = 4 -> "NaN"
                       [] arg.rule \in {5, 6} -> arg.val)

\* the coercer has returned a signed double with an exponent unchanged
C22_Witness ==
  /\ result.returned
  /\ arg = Cell("-42.25e+1", 6)
  /\ result.value = "-42.25e+1"

\* s from index i on is digits, at least one
AllDigits(s, i) == i < Len(s) /\ SkipDigits(s, i) = Len(s)

\* an optional sign, then digits
IsIntegerText(s) == AllDigits(s, IF IsSign(CharAt(s, 0)) THEN 1 ELSE 0)

\* an optional sign, digits, a point, digits, with a digit on one side at
\* least, and an optional exponent
IsDecimalText(s) ==
  LET i == IF IsSign(CharAt(s, 0)) THEN 1 ELSE 0
      p == SkipDigits(s, i)
      q == IF CharAt(s, p) = "." THEN SkipDigits(s, p + 1) ELSE p
      digits == (p - i) + (IF q > p THEN q - p - 1 ELSE 0)
  IN /\ digits > 0
     /\ \/ q = Len(s)
        \/ /\ CharAt(s, q) \in {"e", "E"}
           /\ AllDigits(s, IF IsSign(CharAt(s, q + 1)) THEN q + 2 ELSE q + 1)

\* C23: what get_value returns is NaN, +Inf, -Inf, an integer or a decimal
C23_ValueLexicalForm ==
  (result.returned /\ arg.fn = "get_value") =>
     \/ result.value \in {"NaN", "+Inf", "-Inf"}
     \/ IsIntegerText(result.value)
     \/ IsDecimalText(result.value)

\* the characters of the key from index i on, each by its rule
RECURSIVE EscapedByRule(_, _)
EscapedByRule(key, i) ==
  IF i >= Len(key) THEN ""
  ELSE (CASE CharAt(key, i) = "\"" -> "\\\""
          [] CharAt(key, i) = "\\" -> "\\\\"
          [] CharAt(key, i) = "." -> IF i = Len(key) - 1 THEN "" ELSE "_"
          [] OTHER -> CharAt(key, i))
       \o EscapedByRule(key, i + 1)

\* C24: safe_prometheus_key turns a quote into backslash quote, a backslash
\* into two, a point into an underscore or nothing when it is the last
\* character, and copies every other character; a NULL or empty key gives the
\* empty string without an allocation; safe_prometheus_key_free frees the
\* result exactly when it was allocated
C24_KeyRulesAndOwnership ==
  (result.returned /\ arg.fn = "safe_prometheus_key") =>
     /\ result.value.escaped = (IF arg.val = NULL_STR THEN "" ELSE EscapedByRule(arg.val, 0))
     /\ arg.val \in {NULL_STR, ""} => ~result.value.allocated
     /\ result.value.freed = result.value.allocated

\* whether the text from index i on holds a quote or a backslash that is not
\* the second character of an escape, or a newline
RECURSIVE HasBare(_, _)
HasBare(s, i) ==
  IF i >= Len(s) THEN FALSE
  ELSE IF CharAt(s, i) = "\\"
       THEN IF CharAt(s, i + 1) \in {"\"", "\\"} THEN HasBare(s, i + 2) ELSE TRUE
       ELSE CharAt(s, i) \in {"\"", "\n"} \/ HasBare(s, i + 1)

\* C25: what safe_prometheus_key returns holds no bare quote, no bare
\* backslash and no newline
C25_KeyHasNoBareCharacter ==
  (result.returned /\ arg.fn = "safe_prometheus_key") => ~HasBare(result.value.escaped, 0)

\* C26: when the registry is serialized, no label value of any series holds a
\* bare quote, a bare backslash or a newline
C26_LabelValuesEscaped ==
  \A w \in Workers :
    pc[w] = "serialize" =>
      \A k \in 1..Len(bridge[w].metrics) :
        \A d \in 1..Len(bridge[w].metrics[k].definitions) :
          \A a \in 1..Len(bridge[w].metrics[k].definitions[d].attributes) :
            ~HasBare(bridge[w].metrics[k].definitions[d].attributes[a].value, 0)

(***************************************************************************)
(* The extension collector called on its own (specification SpecExtension) *)
(***************************************************************************)
\* the servers with the extension flags a sequence of earlier scrapes left
FlaggedServers(flags) == [s \in 1..Len(TwoServers) |-> [TwoServers[s] EXCEPT !.extension = flags[s]]]

InitExtension ==
  /\ \E p1 \in ServerProfiles, p2 \in ServerProfiles :
       backend = <<ProfileBackend(p1, 1), ProfileBackend(p2, 2)>>
  /\ \E flags \in [1..Len(TwoServers) -> BOOLEAN] :
       config = pgexporter_open_connections(
                  Configuration(5002, 1, 0, 1, <<>>, CustomMetrics, FlaggedServers(flags)), backend)
  /\ budget = 0
  /\ InitProcesses
  /\ arg = <<>>
  /\ result = NoResult

\* extension_information(client_fd, bridge) on an empty bridge
CallExtension ==
  /\ ~result.returned
  /\ LET r == extension_information(config, backend, <<>>)
     IN /\ config' = r.cfg
        /\ result' = Returned(r.metrics)
  /\ UNCHANGED <<backend, cache, lock, now, budget, pc, start_time, sent, bridge, iter,
                 reset_pc, holds, path, overflowed, wfail, ran, blocks, arg>>

SpecExtension == InitExtension /\ [][CallExtension]_vars

C28_ResourcesReleased ==
  \A w \in Workers :
    (path[w] = "miss" /\ pc[w] \in {"unlock", "error"}) =>
       /\ \A s \in 1..Len(config.servers) : config.servers[s].fd = -1
       /\ bridge[w].ptr # "live"

(***************************************************************************)
(* Creation of the cache and the first request (specification SpecInit)    *)
(***************************************************************************)
\* pgexporter_init_prometheus_cache(&size, &shmem): the value returned, the
\* configuration afterwards, and what it stored through its two pointers
pgexporter_init_prometheus_cache(cfg, alloc_ok) ==
  IF alloc_ok
  THEN [status |-> 0, cfg |-> cfg, shmem_null |-> FALSE, p_size_zero |-> FALSE]
  ELSE [status |-> 1,
        cfg |-> [cfg EXCEPT !.metrics_cache_max_age = PGEXPORTER_PROMETHEUS_CACHE_DISABLED,
                            !.metrics_cache_max_size = PGEXPORTER_PROMETHEUS_CACHE_DISABLED],
        shmem_null |-> TRUE, p_size_zero |-> TRUE]

\* (metrics port, metrics_cache_max_age, metrics_cache_max_size)
InitConfigs == {0, 5002} \X {0, 1, 2, 60, 3600} \X {0, 200, 4096, 2000000}

InitInit ==
  /\ \E ic \in InitConfigs :
       config = Configuration(ic[1], ic[2], ic[3], 1, <<>>, <<>>,
                              <<Server("s1", SERVER_PRIMARY, "", "")>>)
  /\ backend = SmallBackend
  /\ budget = 0
  /\ InitProcesses
  /\ arg \in [alloc_ok : BOOLEAN]
  /\ result = NoResult

CallInit ==
  /\ ~result.returned
  /\ LET r == pgexporter_init_prometheus_cache(config, arg.alloc_ok)
     IN /\ config' = r.cfg
        /\ cache' = init_prometheus_cache(r.cfg)
        /\ result' = Returned([status |-> r.status, shmem_null |-> r.shmem_null,
                               p_size_zero |-> r.p_size_zero, request |-> "none"])
  /\ UNCHANGED <<backend, lock, now, budget, pc, start_time, sent, bridge, iter,
                 reset_pc, holds, path, overflowed, wfail, ran, blocks, arg>>

\* The first /metrics request up to the branch on the cache. metrics_page
\* reaches the lock word through the cache pointer; through a NULL pointer
\* that is undefined: the worker crashes, or the access goes unnoticed.
FirstRequest ==
  /\ result.returned
  /\ result.value.request = "none"
  /\ \E outcome \in (IF result.value.shmem_null THEN {"crashed", "miss"}
                     ELSE IF serve_from_cache(config, cache, now) THEN {"hit"} ELSE {"miss"}) :
       result' = [result EXCEPT !.value.request = outcome]
  /\ UNCHANGED <<arg, process_vars>>

NextInit == CallInit \/ FirstRequest

SpecInit == InitInit /\ [][NextInit]_vars

\* C29: when the allocation of the shared memory fails,
\* pgexporter_init_prometheus_cache returns failure with the maximum age and
\* the maximum size of the cache disabled, the pointer NULL and the size 0, and
\* a later /metrics request is served as a cache miss
C29_InitFailureDisablesCache ==
  (result.returned /\ ~arg.alloc_ok) =>
     /\ result.value.status = 1
     /\ config.metrics_cache_max_age = PGEXPORTER_PROMETHEUS_CACHE_DISABLED
     /\ config.metrics_cache_max_size = PGEXPORTER_PROMETHEUS_CACHE_DISABLED
     /\ result.value.shmem_null
     /\ result.value.p_size_zero
     /\ result.value.request \in {"none", "miss"}

(***************************************************************************)
(* The queries of custom_metrics (specification SpecCustom)                *)
(***************************************************************************)
RECURSIVE custom_queries_executed(_, _, _, _)
\* the calls of pgexporter_custom_query that the two nested for loops of
\* custom_metrics make from (metric i, server), as <<metric, server>> pairs
custom_queries_executed(cfg, i, server, queries) ==
  IF i > Len(cfg.prometheus) THEN queries
  ELSE IF ~collector_pass(cfg, cfg.prometheus[i].collector) \/ server > Len(cfg.servers)
       THEN custom_queries_executed(cfg, i + 1, 1, queries)
       ELSE IF custom_query_sent(cfg, cfg.prometheus[i], server)
            THEN custom_queries_executed(cfg, i, server + 1, Append(queries, <<i, server>>))
            ELSE custom_queries_executed(cfg, i, server + 1, queries)

ServerStates == {SERVER_PRIMARY, SERVER_REPLICA}
ServerQueryTypes == {SERVER_QUERY_BOTH, SERVER_QUERY_PRIMARY, SERVER_QUERY_REPLICA}
CustomProfiles == {"down", "full", "failing"}

\* the variants of the database metric: for both servers, for the second, for none
DatabaseRoots == {<<DatabaseAlt, DatabaseAlt>>, <<NULL_ALT, DatabaseAlt>>, <<NULL_ALT, NULL_ALT>>}

InitCustom ==
  /\ \E p1 \in CustomProfiles, p2 \in CustomProfiles :
       backend = <<ProfileBackend(p1, 1), ProfileBackend(p2, 2)>>
  /\ \E allow \in AllowLists, st1 \in ServerStates, st2 \in ServerStates,
        t1 \in ServerQueryTypes, t2 \in ServerQueryTypes, root \in DatabaseRoots :
       config = pgexporter_open_connections(
                  Configuration(5002, 1, 0, 1, allow,
                    <<Prometheus("pg_db", "db", SORT_NAME, t1, root),
                      Prometheus("pg_lat", "lat", SORT_NAME, t2, <<LatencyAlt, LatencyAlt>>)>>,
                    <<Server("s1", st1, "/pgdata", ""), Server("s2", st2, "", "/pgwal")>>),
                  backend)
  /\ budget = 0
  /\ InitProcesses
  /\ arg = <<>>
  /\ result = NoResult

\* custom_metrics(client_fd, bridge) on an empty bridge
CallCustom ==
  /\ ~result.returned
  /\ result' = Returned([queries |-> custom_queries_executed(config, 1, 1, <<>>),
                         metrics |-> custom_metrics(config, backend, <<>>)])
  /\ UNCHANGED <<arg, process_vars>>

SpecCustom == InitCustom /\ [][CallCustom]_vars

\* how many of the executed queries were for metric i on server s
QueryCount(queries, i, s) == Cardinality({k \in 1..Len(queries) : queries[k] = <<i, s>>})

\* the role of server s matches the server_query_type of metric prom
RoleMatches(cfg, prom, s) ==
  /\ prom.server_query_type = SERVER_QUERY_PRIMARY => cfg.servers[s].state = SERVER_PRIMARY
  /\ prom.server_query_type = SERVER_QUERY_REPLICA => cfg.servers[s].state = SERVER_REPLICA

\* C30: custom_metrics executes no query of a metric on a disconnected server,
\* on a server whose role does not match the metric's server_query_type, on a
\* server without a query variant, or for a metric whose collector fails the
\* allow-list; it executes the query of every other (metric, server) pair
\* exactly once
C30_CustomQueryGating ==
  result.returned =>
    \A i \in 1..Len(config.prometheus), s \in 1..Len(config.servers) :
      QueryCount(result.value.queries, i, s) =
        (IF /\ config.servers[s].fd # -1
            /\ RoleMatches(config, config.prometheus[i], s)
            /\ ~config.prometheus[i].root[s].isnull
            /\ Allowed(config, config.prometheus[i].collector)
         THEN 1 ELSE 0)

\* custom_metrics has run with both servers connected and every collector
\* allowed: the primary-only database metric was queried on the primary and
\* not on the replica, the latency metric on both, and the answers are in the
\* bridge
C30_Witness ==
  /\ result.returned
  /\ config.collectors = <<>>
  /\ config.servers[1].fd # -1 /\ config.servers[2].fd # -1
  /\ config.servers[1].state = SERVER_PRIMARY /\ config.servers[2].state = SERVER_REPLICA
  /\ config.prometheus[1].server_query_type = SERVER_QUERY_PRIMARY
  /\ config.prometheus[1].root = <<DatabaseAlt, DatabaseAlt>>
  /\ result.value.queries = <<<<1, 1>>, <<2, 1>>, <<2, 2>>>>
  /\ result.value.metrics # <<>>

(***************************************************************************)
(* The client read and write helpers of connection.c (specification SpecIO)*)
(***************************************************************************)
\* the retry limit of read_complete
READ_RETRIES == 100
\* the most system calls one call of a helper is followed through
MaxIoCalls == 103

\* the frame of one call: the locals of the helper, the number of
\* read/write calls made so far and the outcome of the last one
Frame(fn, size) ==
  [fn |-> fn, size |-> size, offset |-> 0, needs |-> size, retries |-> 0,
   totalbytes |-> 0, keep_write |-> FALSE, calls |-> 0, last |-> "none"]

IoSizes == {1, 2}
Helpers == {"read_complete", "write_socket", "write_ssl"}

\* what read and write return: a byte count, or -1 with an errno
Transfer(n) == [r |-> n, errno |-> "0"]
Errno(e) == [r |-> -1, errno |-> e]
SocketResults(most) ==
  {Transfer(n) : n \in 0..most} \cup {Errno(e) : e \in {"EAGAIN", "EWOULDBLOCK", "ECONNRESET"}}

\* what SSL_write returns: a byte count, or 0 with the code of SSL_get_error
SslErrors == {"SSL_ERROR_ZERO_RETURN", "SSL_ERROR_WANT_READ", "SSL_ERROR_WANT_WRITE",
              "SSL_ERROR_SYSCALL", "SSL_ERROR_SSL"}
SslResults(most) ==
  {Transfer(n) : n \in 1..most} \cup {[r |-> 0, errno |-> e] : e \in SslErrors}

InitIO ==
  /\ config = Configuration(5002, 1, 0, 1, <<>>, <<>>, <<Server("s1", SERVER_PRIMARY, "", "")>>)
  /\ backend = SmallBackend
  /\ budget = 0
  /\ InitProcesses
  /\ \E fn \in Helpers, size \in IoSizes : arg = Frame(fn, size)
  /\ result = NoResult

\* one pass through the label read of read_complete
read_complete ==
  /\ arg.fn = "read_complete"
  /\ ~result.returned
  /\ arg.calls < MaxIoCalls
  /\ \E o \in SocketResults(arg.needs) :
       LET f == [arg EXCEPT !.calls = @ + 1, !.last = o.errno]
       IN IF o.r = -1
          THEN IF o.errno \in {"EAGAIN", "EWOULDBLOCK"}
               THEN arg' = f /\ result' = result
               ELSE arg' = f /\ result' = Returned(1)
          ELSE IF o.r < arg.needs
               THEN IF arg.retries < READ_RETRIES
                    THEN /\ arg' = [f EXCEPT !.offset = @ + o.r, !.needs = @ - o.r,
                                             !.retries = @ + 1]
                         /\ result' = result
                    ELSE arg' = f /\ result' = Returned(1)
               ELSE arg' = f /\ result' = Returned(0)
  /\ UNCHANGED process_vars

\* one pass through the do-while loop of write_socket
write_socket ==
  /\ arg.fn = "write_socket"
  /\ ~result.returned
  /\ arg.calls < MaxIoCalls
  /\ \E o \in SocketResults(arg.needs) :
       LET f == [arg EXCEPT !.calls = @ + 1, !.last = o.errno]
       IN IF o.r = arg.size
          THEN arg' = f /\ result' = Returned(0)
          ELSE IF o.r # -1
               THEN IF arg.totalbytes + o.r = arg.size
                    THEN /\ arg' = [f EXCEPT !.offset = @ + o.r, !.totalbytes = @ + o.r,
                                             !.needs = @ - o.r]
                         /\ result' = Returned(0)
                    ELSE /\ arg' = [f EXCEPT !.offset = @ + o.r, !.totalbytes = @ + o.r,
                                             !.needs = @ - o.r, !.keep_write = TRUE]
                         /\ result' = result
               ELSE IF o.errno = "EAGAIN"
                    THEN arg' = [f EXCEPT !.keep_write = TRUE] /\ result' = result
                    ELSE arg' = [f EXCEPT !.keep_write = FALSE] /\ result' = Returned(1)
  /\ UNCHANGED process_vars

\* one pass through the do-while loop of write_ssl
write_ssl ==
  /\ arg.fn = "write_ssl"
  /\ ~result.returned
  /\ arg.calls < MaxIoCalls
  /\ \E o \in SslResults(arg.needs) :
       LET f == [arg EXCEPT !.calls = @ + 1, !.last = o.errno]
       IN IF o.r = arg.size
          THEN arg' = f /\ result' = Returned(0)
          ELSE IF o.r > 0
               THEN IF arg.totalbytes + o.r = arg.size
                    THEN /\ arg' = [f EXCEPT !.offset = @ + o.r, !.totalbytes = @ + o.r,
                                             !.needs = @ - o.r]
                         /\ result' = Returned(0)
                    ELSE /\ arg' = [f EXCEPT !.offset = @ + o.r, !.totalbytes = @ + o.r,
                                             !.needs = @ - o.r, !.keep_write = TRUE]
                         /\ result' = result
               ELSE IF o.errno \in {"SSL_ERROR_SYSCALL", "SSL_ERROR_SSL"}
                    THEN arg' = [f EXCEPT !.keep_write = FALSE] /\ result' = Returned(1)
                    ELSE arg' = [f EXCEPT !.keep_write = TRUE] /\ result' = result
  /\ UNCHANGED process_vars

NextIO == read_complete \/ write_socket \/ write_ssl

SpecIO == InitIO /\ [][NextIO]_vars

\* C31: read_complete and write_socket make at most the first call and
\* READ_RETRIES retries before they return, whatever read and write answer,
\* and write_ssl returns failure at once on SSL_ERROR_SYSCALL and SSL_ERROR_SSL
C31_BoundedRetries ==
  /\ arg.fn \in {"read_complete", "write_socket"} => arg.calls <= READ_RETRIES + 1
  /\ (arg.fn = "write_ssl" /\ arg.last \in {"SSL_ERROR_SYSCALL", "SSL_ERROR_SSL"}) =>
       (result.returned /\ result.value = 1)

(***************************************************************************)
(* handle_histogram on tuples whose two arrays differ in length            *)
(* (specification SpecArrays)                                              *)
(***************************************************************************)
\* a histogram tuple of server s with nb bounds and nc cumulative counts
RaggedHistogram(s, nb, nc) ==
  [server |-> s,
   b |-> [i \in 1..nb |-> ToString(i) \o ".5"],
   c |-> [i \in 1..nc |-> ToString(2 * i + s)],
   sum |-> ToString(s) \o ".25",
   count |-> ToString(2 * nc + s + 1)]

RaggedHistograms == {RaggedHistogram(s, nb, nc) : s \in 1..2, nb \in 0..MaxBuckets, nc \in 0..MaxBuckets}

\* some finite bucket series took its value from an entry of buckets_arr that
\* no parse_list call had written: strdup(buckets_arr[i]) of a NULL pointer
strdup_of_null(metrics) ==
  \E k \in 1..Len(Series(metrics, "pgexporter_pg_lat_bucket")) :
    Series(metrics, "pgexporter_pg_lat_bucket")[k].values = <<NULL_STR>>

InitArrays ==
  /\ config = Configuration(5002, 1, 0, 1, <<>>, CustomMetrics, TwoServers)
  /\ backend = <<ProfileBackend("full", 1), ProfileBackend("full", 2)>>
  /\ budget = 0
  /\ InitProcesses
  /\ \E h1 \in RaggedHistograms :
       \/ arg = <<h1>>
       \/ \E h2 \in RaggedHistograms : arg = <<h1, h2>>
  /\ result = NoResult

\* handle_histogram(bridge, temp) on an empty bridge; the call need not
\* return the bridge when it passes a NULL pointer to strdup
CallArrays ==
  /\ ~result.returned
  /\ LET metrics == handle_histogram(config, <<>>, HistogramNode(arg))
     IN \E crashed \in (IF strdup_of_null(metrics) THEN BOOLEAN ELSE {FALSE}) :
          result' = Returned([crashed |-> crashed,
                              metrics |-> IF crashed THEN <<>> ELSE metrics])
  /\ UNCHANGED <<arg, process_vars>>

SpecArrays == InitArrays /\ [][CallArrays]_vars

\* the number of bucket series the tuples before the k-th one have when each
\* tuple has one per index present in both of its arrays, and the +Inf series
RECURSIVE SharedBefore(_, _)
SharedBefore(hs, k) ==
  IF k = 1 THEN 0
  ELSE SharedBefore(hs, k - 1) + Min(Len(hs[k - 1].b), Len(hs[k - 1].c)) + 1

\* C32: for tuples whose bounds and counts differ in length the call returns,
\* the finite bucket series of a tuple are those of the indices present in
\* both of its arrays, each valued with the count the tuple itself holds at
\* that index, and neither array holds more than MAX_ARR_LENGTH elements
C32_ArraysOfDifferentLength ==
  result.returned =>
    /\ ~result.value.crashed
    /\ LET bucket == Series(result.value.metrics, "pgexporter_pg_lat_bucket")
       IN /\ Len(bucket) = SharedBefore(arg, Len(arg) + 1)
          /\ \A k \in 1..Len(arg) :
               \A i \in 1..Min(Len(arg[k].b), Len(arg[k].c)) :
                 /\ HasLabel(bucket[SharedBefore(arg, k) + i], "le", arg[k].b[i])
                 /\ bucket[SharedBefore(arg, k) + i].values = <<arg[k].c[i]>>
    /\ \A k \in 1..Len(arg) :
         /\ parse_list(ArrayText(arg[k].b), <<>>).n_strs <= MAX_ARR_LENGTH
         /\ parse_list(ArrayText(arg[k].c), <<>>).n_strs <= MAX_ARR_LENGTH

(***************************************************************************)
(* Release of the cache lock (specification Spec)                          *)
(***************************************************************************)
\* the process is between its entry and its return
Running(p) ==
  IF p = RESET THEN reset_pc \notin {"done"} ELSE pc[p] \notin {"idle", "done", "error"}

\* C33: a worker that has returned from metrics_page, on the error label too,
\* no longer holds the cache lock, and whenever the lock word is IN_USE a
\* process that has not yet returned holds it
C33_LockReleasedOnEveryPath ==
  /\ \A w \in Workers : pc[w] \in {"done", "error"} => w \notin holds
  /\ lock = STATE_IN_USE => \E p \in holds : Running(p)

(***************************************************************************)
(* The server label of the version, uptime and primary families            *)
(* (specification SpecCollect)                                             *)
(***************************************************************************)
\* the families of the three collectors and the query each merges
MergedFamilies ==
  {<<"pgexporter_postgresql_version", "version">>,
   <<"pgexporter_postgresql_uptime", "uptime">>,
   <<"pgexporter_postgresql_primary", "primary">>}

\* C34: when the collectors of a scrape have run, every series of the
\* version, uptime and primary families carries the name of the server whose
\* query produced the tuple the series was made from
C34_ServerLabelIsTupleOrigin ==
  \A w \in Workers :
    pc[w] = "serialize" =>
      \A f \in MergedFamilies :
        LET all == query_all_servers(config, backend, f[2], SORT_NAME, 1, NULL_QUERY)
            defs == Series(bridge[w].metrics, f[1])
        IN \A k \in 1..Len(defs) :
             HasLabel(defs[k], "server", config.servers[all.tuples[k].server].name)

(***************************************************************************)
(* Destruction of the bridge (specification Spec)                          *)
(***************************************************************************)
\* C35: the bridge a cache-miss scrape created is never destroyed twice, and
\* it has been destroyed once when metrics_page is about to release the lock
\* or has returned
C35_BridgeDestroyedOnce ==
  \A w \in Workers :
    /\ bridge[w].destroyed <= 1
    /\ (bridge[w].ptr # "null" /\ pc[w] \in {"unlock", "done", "error"}) =>
         bridge[w].destroyed = 1

(***************************************************************************)
(* The bytes metrics_cache_append writes (specification SpecCache)         *)
(***************************************************************************)
\* the index of the byte the last statement of metrics_cache_append sets to 0
append_nul_index(origin_length, append_length) == origin_length + append_length + 1

\* C36: the body of a configured cache is strictly shorter than its size, and
\* an append that passes the overflow check writes its payload and its
\* terminating NUL to bytes data[0..size-1] only
C36_AppendStaysInsideBuffer ==
  is_metrics_cache_configured(config) =>
    /\ Len(cache.data) < cache.size
    /\ \A k \in 1..Len(arg) :
         (arg[k].op = "append" /\ arg[k].origin + Len(arg[k].data) < cache.size) =>
            /\ arg[k].origin + Len(arg[k].data) - 1 <= cache.size - 1
            /\ append_nul_index(arg[k].origin, Len(arg[k].data)) <= cache.size - 1
            /\ ~arg[k].crashed

(***************************************************************************)
(* Clearing of the extension flag (specification SpecExtension)            *)
(***************************************************************************)
\* the calls extension_information makes for one tuple of the function list:
\* the function without input, or with the data and the WAL directory
ExtensionCalls(d) ==
  IF d[2] = "f" \/ d[2] = "false"
  THEN (IF d[1] # "pgexporter_get_functions" THEN {INPUT_NO} ELSE {})
  ELSE (IF d[1] # "pgexporter_is_supported" THEN {INPUT_DATA, INPUT_WAL} ELSE {})

\* the directory the input of a call names is configured for server s
InputConfigured(s, input) ==
  /\ input = INPUT_DATA => Len(config.servers[s].data) > 0
  /\ input = INPUT_WAL => Len(config.servers[s].wal) > 0

\* some query that the extension collector can send to server s fails: the
\* query of the function list, or a function call whose input is configured
QueryToServerFails(s) ==
  \/ backend[s].functions.isnull
  \/ \E src \in 1..Len(backend) :
       \E k \in 1..Len(backend[src].functions.tuples) :
         \E input \in ExtensionCalls(backend[src].functions.tuples[k].data) :
           /\ InputConfigured(s, input)
           /\ query_execute(backend, s,
                extension_metric_name(backend[src].functions.tuples[k].data[1], input)).isnull

\* C37: the extension flag of a server goes from true to false only when a
\* query that was sent to that server failed; a function call that is skipped
\* because the server has no data or WAL directory leaves the flag alone
C37_FlagClearedOnlyByFailedQuery ==
  [][\A s \in 1..Len(config.servers) :
       (config.servers[s].extension /\ ~config'.servers[s].extension) =>
          QueryToServerFails(s)]_vars

(***************************************************************************)
(* pgexporter_prometheus_reset among scrapes and logging                   *)
(* (specification SpecReset)                                               *)
(***************************************************************************)
NextReset == Next \/ pgexporter_prometheus_logging

SpecReset == Init /\ [][NextReset]_vars

IsGetRequest(data) == Len(data) >= 3 /\ starts_with(data, "GET")

\* C39: for every request that could be read, resolve_page returns a page
\* and the worker goes on to a handler; the loop that looks for the end of
\* the path stops at a space of the message, at an index from 4 to length - 1,
\* which is where the terminating 0 is then written
C39_ResolvePageStaysInsideMessage ==
  (result.returned /\ arg.status_ok) =>
    /\ result.value.exit # -1
    /\ result.value.called # ""
    /\ IsGetRequest(arg.data) =>
         find_space(arg.data, 4) \in 4..(Len(arg.data) - 1)

====
